---------------------------- MODULE Spec2Model ----------------------------
(***************************************************************************)
(* Model of the Brainfuck JIT pipeline of rust-brainfuck:                  *)
(*   Program::from_string -> IrCode::new -> IrCode::optimize -> execution  *)
(* together with the reference interpreter (Interpreter::interpret).       *)
(*                                                                         *)
(* Vectors keep the 0-based indices of the source: a Vec<T> of length n is *)
(* a function with domain 0..n-1.  Option<usize> links are naturals, None  *)
(* is NoLink.  A Rust panic is the value Panic of an operator's result and *)
(* a control state "abort_..." of the pipeline.                            *)
(***************************************************************************)
EXTENDS Integers, Sequences, FiniteSets, TLC

VARIABLES
    overflow_checks,  \* build profile: TRUE = arithmetic overflow panics (debug), FALSE = wraps (release)
    source,           \* the source text, a sequence of characters
    input,            \* the bytes the read callback / stdin will deliver
    pc,               \* position in main::jit
    program,          \* Program.instructions
    ops0,             \* IrCode.ops as IrCode::new built it
    ops,              \* IrCode.ops
    old,              \* optimize(): local `old`
    passes,           \* number of optimize_program_once calls that returned
    last_len,         \* value the latest optimize_program_once call returned
    run,              \* results of executing the program (reference, unoptimized, optimized)
    asm,              \* the Assembler of compile(): data (Brainfuck.program), addr, labels
    cc,               \* compile(): its locals and Brainfuck.length
    cpu,              \* the processor running the compiled program
    asm_call          \* the Assembler method a unit test calls, with its arguments

vars == <<overflow_checks, source, input, pc, program, ops0, ops, old, passes, last_len, run,
          asm, cc, cpu, asm_call>>

\* what the steps before compile() leave alone
jitvars == <<asm, cc, cpu, asm_call>>

-----------------------------------------------------------------------------
(* Bounds of the model *)

\* longest enumerated source text
MaxLen == 3
\* longest enumerated input
MaxInput == 3
\* steps after which an execution counts as not halting
MaxSteps == 700

(* Program constants *)

\* number of values of a u8 payload
Byte == 256
\* tape size
MAX_MEMORY == 30000
\* length of compile()'s parentheses_id_stack
ID_STACK == 4096

\* Option<usize>::None
NoLink == 0 - 1

-----------------------------------------------------------------------------
(* Plain data helpers *)

Vec(s) == [i \in 0 .. Len(s) - 1 |-> s[i + 1]]
VLen(v) == Cardinality(DOMAIN v)
Rep(c, n) == [i \in 1 .. n |-> c]

RECURSIVE SeqsUpTo(_, _)
SeqsUpTo(S, n) ==
    IF n = 0 THEN {<<>>}
    ELSE LET shorter == SeqsUpTo(S, n - 1)
         IN  shorter \cup {Append(s, c) : s \in {t \in shorter : Len(t) = n - 1}, c \in S}

-----------------------------------------------------------------------------
(* brainfuck.rs: the parser *)

\* mutant: a character outside the alphabet is kept as a move
from_char_keeps_all(c) ==
    CASE c = ">" -> "IncrementPtr"
      [] c = "<" -> "DecrementPtr"
      [] c = "+" -> "IncrementMemory"
      [] c = "-" -> "DecrementMemory"
      [] c = "." -> "WriteByte"
      [] c = "," -> "ReadByte"
      [] c = "[" -> "JumpForward"
      [] c = "]" -> "JumpBackward"
      [] OTHER -> "IncrementPtr"

from_char(c) ==
    CASE c = ">" -> "IncrementPtr"
      [] c = "<" -> "DecrementPtr"
      [] c = "+" -> "IncrementMemory"
      [] c = "-" -> "DecrementMemory"
      [] c = "." -> "WriteByte"
      [] c = "," -> "ReadByte"
      [] c = "[" -> "JumpForward"
      [] c = "]" -> "JumpBackward"
      [] OTHER -> "None"

\* .map(from_char).filter_map(|x| x) over the characters lo..hi of s
RECURSIVE FilterMap(_, _, _)
FilterMap(s, lo, hi) ==
    IF lo > hi THEN <<>>
    ELSE IF lo = hi
         THEN (IF from_char(s[lo]) = "None" THEN <<>> ELSE <<from_char(s[lo])>>)
         ELSE FilterMap(s, lo, (lo + hi) \div 2) \o FilterMap(s, (lo + hi) \div 2 + 1, hi)

from_string(s) == Vec(FilterMap(s, 1, Len(s)))

Ok(v) == [panic |-> FALSE, val |-> v]
Panic == [panic |-> TRUE, val |-> 0]

\* one iteration of the loop of find_matching_jump_end, then the rest
RECURSIVE jump_end_loop(_, _, _)
jump_end_loop(instructions, pos, level) ==
    IF pos \notin DOMAIN instructions THEN Panic      \* instructions[pos]: index out of bounds
    ELSE LET level2 == CASE instructions[pos] = "JumpForward" -> level + 1
                         [] instructions[pos] = "JumpBackward" -> level - 1
                         [] OTHER -> level
         IN  IF level2 = 0 THEN Ok(pos)
             ELSE IF pos >= VLen(instructions) THEN Panic
             ELSE jump_end_loop(instructions, pos + 1, level2)

find_matching_jump_end(instructions, jump_start_pos) ==
    jump_end_loop(instructions, jump_start_pos, 0)

RECURSIVE jump_start_loop(_, _, _)
jump_start_loop(instructions, pos, level) ==
    LET level2 == CASE instructions[pos] = "JumpForward" -> level - 1
                    [] instructions[pos] = "JumpBackward" -> level + 1
                    [] OTHER -> level
    IN  IF level2 = 0 THEN Ok(pos)
        ELSE IF pos = 0 THEN Panic
        ELSE jump_start_loop(instructions, pos - 1, level2)

\* mutant: the scan that runs off the start returns position 0 instead of panicking
find_matching_jump_start_unchecked(instructions, jump_end_pos) ==
    LET r == jump_start_loop(instructions, jump_end_pos, 0)
    IN  IF r.panic THEN Ok(0) ELSE r

find_matching_jump_start(instructions, jump_end_pos) ==
    jump_start_loop(instructions, jump_end_pos, 0)

-----------------------------------------------------------------------------
(* ir.rs: IrOp and IrCode::new *)

\* an IrOp: its variant, its next link, its u8 payload (0 when the variant
\* has none) and its second link (NoLink when the variant has none)
IrOp(kind, next, data, target) ==
    [kind |-> kind, next |-> next, data |-> data, target |-> target]

Right(l, x) == IrOp("Right", l, x, NoLink)
Left(l, x) == IrOp("Left", l, x, NoLink)
Add(l, x) == IrOp("Add", l, x, NoLink)
Sub(l, x) == IrOp("Sub", l, x, NoLink)
SetIndirect(l, c) == IrOp("SetIndirect", l, c, NoLink)
Write(l) == IrOp("Write", l, 0, NoLink)
Read(l) == IrOp("Read", l, 0, NoLink)
JumpIfZero(l, t) == IrOp("JumpIfZero", l, 0, t)
JumpIfNotZero(l, t) == IrOp("JumpIfNotZero", l, 0, t)
Noop(l) == IrOp("Noop", l, 0, NoLink)
\* MulCopy(Link, u8, u8): offset, factor
MulCopy(l, offset, factor) ==
    [kind |-> "MulCopy", next |-> l, data |-> offset, target |-> NoLink, factor |-> factor]

\* the node IrCode::new pushes for instruction idx, or Panic
new_op(instructions, idx) ==
    LET is_last == VLen(instructions) - 1 = idx
        next == IF is_last THEN NoLink ELSE idx + 1
        op == instructions[idx]
    IN  CASE op = "IncrementPtr" -> Ok(Right(next, 1))
          [] op = "DecrementPtr" -> Ok(Left(next, 1))
          [] op = "IncrementMemory" -> Ok(Add(next, 1))
          [] op = "DecrementMemory" -> Ok(Sub(next, 1))
          [] op = "ReadByte" -> Ok(Read(next))
          [] op = "WriteByte" -> Ok(Write(next))
          [] op = "JumpForward" ->
                LET e == find_matching_jump_end(instructions, idx)
                IN  IF e.panic THEN Panic ELSE Ok(JumpIfZero(next, e.val + 1))
          [] op = "JumpBackward" ->
                LET b == find_matching_jump_start(instructions, idx)
                IN  IF b.panic THEN Panic ELSE Ok(JumpIfNotZero(next, b.val))

IrCode_new(instructions) ==
    IF \E idx \in DOMAIN instructions : new_op(instructions, idx).panic
    THEN Panic
    ELSE Ok([idx \in DOMAIN instructions |-> new_op(instructions, idx).val])

-----------------------------------------------------------------------------
(* Integer arithmetic of the build: with overflow checks (debug profile) an *)
(* overflowing operation panics, without them (release profile) it wraps.   *)

\* u8 + u8
u8_add(x, y, checks) ==
    IF x + y >= Byte THEN (IF checks THEN Panic ELSE Ok((x + y) % Byte))
    ELSE Ok(x + y)

\* u8::wrapping_sub
wrapping_sub(c, x) == (c - x) % Byte

\* `v as i8` of a u8
as_i8(v) == IF v >= Byte \div 2 THEN v - Byte ELSE v

\* `r as u8` of an i8
as_u8(r) == r % Byte

\* i8 - i8
i8_sub(a, b, checks) ==
    LET r == a - b
    IN  IF r < 0 - Byte \div 2 \/ r >= Byte \div 2
        THEN (IF checks THEN Panic ELSE Ok(as_i8(r % Byte)))
        ELSE Ok(r)

\* -i8
i8_neg(r, checks) ==
    IF r = 0 - Byte \div 2 THEN (IF checks THEN Panic ELSE Ok(r))
    ELSE Ok(0 - r)

-----------------------------------------------------------------------------
(* ir.rs: the peephole optimizer *)

\* the arms `let result = a as i8 - b as i8;
\*           if result > 0 { Pos(far, result as u8) } else { Neg(far, -result as u8) }`
signed_difference(a, b, far, pos, neg, checks) ==
    LET result == i8_sub(as_i8(a), as_i8(b), checks)
    IN  IF result.panic THEN Panic
        ELSE IF result.val > 0 THEN Ok(IrOp(pos, far, as_u8(result.val), NoLink))
        ELSE LET n == i8_neg(result.val, checks)
             IN  IF n.panic THEN Panic ELSE Ok(IrOp(neg, far, as_u8(n.val), NoLink))

\* the arms `Kind(far, x + y)`
sum_of(kind, x, y, far, checks) ==
    LET s == u8_add(x, y, checks)
    IN  IF s.panic THEN Panic ELSE Ok(IrOp(kind, far, s.val, NoLink))

\* Option<IrOp>
Some(v) == [some |-> TRUE, val |-> v]
None == [some |-> FALSE, val |-> 0]

\* mutant: the clear-loop arms match a body of any magnitude
three_ops_any_magnitude(current, next, subsequent) ==
    IF /\ current.kind = "JumpIfZero"
       /\ next.kind \in {"Sub", "Add"}
       /\ subsequent.kind = "JumpIfNotZero"
    THEN Some(SetIndirect(subsequent.next, 0))
    ELSE None

\* mutant: the clear loop's replacement takes the second link of the close
\* bracket for its next link
three_ops_links_target(current, next, subsequent) ==
    IF /\ current.kind = "JumpIfZero"
       /\ next.kind \in {"Sub", "Add"} /\ next.data = 1
       /\ subsequent.kind = "JumpIfNotZero"
    THEN Some(SetIndirect(subsequent.target, 0))
    ELSE None

\* mutant: the clear loop's replacement leads to the close bracket, which
\* stays in the chain
three_ops_keeps_close(current, next, subsequent) ==
    IF /\ current.kind = "JumpIfZero"
       /\ next.kind \in {"Sub", "Add"} /\ next.data = 1
       /\ subsequent.kind = "JumpIfNotZero"
    THEN Some(SetIndirect(next.next, 0))
    ELSE None

\* the match on three consecutive ops
three_ops(current, next, subsequent) ==
    IF /\ current.kind = "JumpIfZero"
       /\ next.kind \in {"Sub", "Add"} /\ next.data = 1
       /\ subsequent.kind = "JumpIfNotZero"
    THEN Some(SetIndirect(subsequent.next, 0))
    ELSE None

\* the match on two consecutive ops
two_ops(current, next, checks) ==
    LET c == current.kind
        n == next.kind
        x == current.data
        y == next.data
        far == next.next
    IN  CASE c = "Add" /\ n = "Add" -> sum_of("Add", x, y, far, checks)
          [] c = "Sub" /\ n = "Sub" -> sum_of("Sub", x, y, far, checks)
          [] c = "Sub" /\ n = "Add" -> signed_difference(y, x, far, "Add", "Sub", checks)
          [] c = "Add" /\ n = "Sub" -> signed_difference(x, y, far, "Add", "Sub", checks)
          [] c = "Right" /\ n = "Right" -> sum_of("Right", x, y, far, checks)
          [] c = "Left" /\ n = "Left" -> sum_of("Left", x, y, far, checks)
          [] c = "Right" /\ n = "Left" -> signed_difference(x, y, far, "Right", "Left", checks)
          [] c = "Left" /\ n = "Right" -> signed_difference(y, x, far, "Right", "Left", checks)
          [] c = "SetIndirect" /\ n = "Add" -> sum_of("SetIndirect", x, y, far, checks)
          [] c = "SetIndirect" /\ n = "Sub" -> Ok(SetIndirect(far, wrapping_sub(x, y)))
          [] c \in {"Add", "Sub", "SetIndirect"} /\ n = "SetIndirect" -> Ok(SetIndirect(far, y))
          [] OTHER -> Ok(current)

find_replacement(o, current_idx, checks) ==
    IF current_idx \notin DOMAIN o THEN Panic          \* expect("current not found")
    ELSE LET current == o[current_idx]
             next_idx == current.next
         IN  IF next_idx = NoLink THEN Ok(current)
             ELSE IF next_idx \notin DOMAIN o THEN Panic   \* expect("next not found")
             ELSE LET next == o[next_idx]
                      subsequent_idx == next.next
                      three == IF subsequent_idx = NoLink THEN None
                               ELSE three_ops(current, next, o[subsequent_idx])
                  IN  IF subsequent_idx # NoLink /\ subsequent_idx \notin DOMAIN o
                      THEN Panic                            \* expect("subsequent not found")
                      ELSE IF three.some THEN Ok(three.val)
                      ELSE two_ops(current, next, checks)

\* one iteration of the loop of optimize_program_once
once_step(st, checks) ==
    LET replacement == find_replacement(st.ops, st.idx, checks)
    IN  IF replacement.panic THEN [st EXCEPT !.panic = TRUE]
        ELSE [st EXCEPT !.ops[st.idx] = replacement.val,
                        !.idx = replacement.val.next,
                        !.len = st.len + 1]

\* up to n iterations of the loop, until it returns (idx = usize::MAX) or panics
RECURSIVE once_loop(_, _, _)
once_loop(st, checks, n) ==
    IF st.idx = NoLink \/ st.panic THEN st
    ELSE IF n <= 1 THEN once_step(st, checks)
    ELSE once_loop(once_loop(st, checks, n \div 2), checks, n - n \div 2)

\* Panic, or the rewritten vector and the returned count.  Every iteration
\* moves idx forward in the vector, so the loop ends within VLen(o) iterations.
optimize_program_once(o, checks) ==
    LET r == once_loop([ops |-> o, idx |-> 0, len |-> 0, panic |-> FALSE], checks, VLen(o) + 1)
    IN  IF r.panic THEN Panic ELSE Ok([ops |-> r.ops, len |-> r.len])

\* IrCode::len: one iteration of its loop
len_step(o, st) ==
    IF st.idx \notin DOMAIN o THEN [st EXCEPT !.panic = TRUE]   \* expect("cannot get next instruction")
    ELSE IF o[st.idx].next = NoLink THEN [st EXCEPT !.len = st.len + 1, !.done = TRUE]
    ELSE [st EXCEPT !.len = st.len + 1, !.idx = o[st.idx].next]

RECURSIVE len_loop(_, _, _)
len_loop(o, st, n) ==
    IF st.done \/ st.panic THEN st
    ELSE IF n <= 1 THEN len_step(o, st)
    ELSE len_loop(o, len_loop(o, st, n \div 2), n - n \div 2)

\* Panic or the length of the chain.  The links of a chain lead forward in
\* the vector, so the walk ends within VLen(o) iterations.
IrCode_len(o) ==
    LET r == len_loop(o, [idx |-> 0, len |-> 0, done |-> FALSE, panic |-> FALSE], VLen(o) + 1)
    IN  IF r.panic THEN Panic ELSE Ok(r.len)

\* IrCode::iter: up to n calls of Iter::next; seq collects the indices visited
RECURSIVE iter_loop(_, _, _)
iter_loop(o, st, n) ==
    IF st.idx \notin DOMAIN o THEN st
    ELSE IF n <= 1 THEN [idx |-> o[st.idx].next, seq |-> Append(st.seq, st.idx)]
    ELSE iter_loop(o, iter_loop(o, st, n \div 2), n - n \div 2)

\* the indices IrCode::iter visits, in order
iter_indices(o) == iter_loop(o, [idx |-> 0, seq |-> <<>>], VLen(o) + 1).seq

\* the nodes IrCode::iter yields, as a sequence
iter(o) == LET ix == iter_indices(o) IN [k \in DOMAIN ix |-> o[ix[k]]]

\* the indices of the nodes of the chain
Reachable(o) == LET ix == iter_indices(o) IN {ix[k] : k \in DOMAIN ix}

-----------------------------------------------------------------------------
(* The tape: [u8; MAX_MEMORY], zero-initialised.  It is kept as the function *)
(* of its non-zero cells, so that two tapes are equal iff all cells agree.   *)

ZeroTape == <<>>
InTape(a) == a >= 0 /\ a < MAX_MEMORY
Cell(mem, a) == IF a \in DOMAIN mem THEN mem[a] ELSE 0
Store(mem, a, v) ==
    IF v = 0 THEN [x \in DOMAIN mem \ {a} |-> mem[x]]
    ELSE [x \in DOMAIN mem \cup {a} |-> IF x = a THEN v ELSE mem[x]]

\* how an execution ended, what it wrote, the tape and data pointer it left
Outcome(status, st) ==
    [status |-> status, out |-> st.out, mem |-> st.mem, ptr |-> st.ptr]

NotRun == [status |-> "none", out |-> <<>>, mem |-> ZeroTape, ptr |-> 0]

-----------------------------------------------------------------------------
(* interpreter.rs: the reference interpreter.  A usize that wrapped below   *)
(* zero is kept as the negative number congruent to it.                     *)

\* the state after the match arm of one instruction, or Panic
interpret_op(instructions, st, inp, checks) ==
    LET op == instructions[st.pc]
        p == st.ptr
    IN  CASE op = "IncrementPtr" ->
                IF p = 0 - 1 /\ checks THEN Panic ELSE Ok([st EXCEPT !.ptr = p + 1])
          [] op = "DecrementPtr" ->
                IF p = 0 /\ checks THEN Panic ELSE Ok([st EXCEPT !.ptr = p - 1])
          [] op = "IncrementMemory" ->
                IF ~InTape(p) THEN Panic
                ELSE Ok([st EXCEPT !.mem = Store(st.mem, p, (Cell(st.mem, p) + 1) % Byte)])
          [] op = "DecrementMemory" ->
                IF ~InTape(p) THEN Panic
                ELSE Ok([st EXCEPT !.mem = Store(st.mem, p, (Cell(st.mem, p) - 1) % Byte)])
          [] op = "ReadByte" ->
                IF st.inpos > Len(inp) \/ ~InTape(p) THEN Panic   \* read_exact fails at end of input
                ELSE Ok([st EXCEPT !.mem = Store(st.mem, p, inp[st.inpos]),
                                   !.inpos = st.inpos + 1])
          [] op = "WriteByte" ->
                IF ~InTape(p) THEN Panic
                ELSE Ok([st EXCEPT !.out = Append(st.out, Cell(st.mem, p))])
          [] op = "JumpForward" ->          \* op_jump_forward
                IF ~InTape(p) THEN Panic
                ELSE IF Cell(st.mem, p) = 0
                THEN LET end == find_matching_jump_end(instructions, st.pc)
                     IN  IF end.panic THEN Panic ELSE Ok([st EXCEPT !.pc = end.val])
                ELSE Ok(st)
          [] op = "JumpBackward" ->         \* op_jump_backward
                IF ~InTape(p) THEN Panic
                ELSE IF Cell(st.mem, p) # 0
                THEN LET begin == find_matching_jump_start(instructions, st.pc)
                     IN  IF begin.panic \/ (begin.val = 0 /\ checks) THEN Panic
                         ELSE Ok([st EXCEPT !.pc = begin.val - 1])
                ELSE Ok(st)

\* one iteration of the loop of interpret(); status tells whether the loop
\* is still running, has ended ("halt") or the interpreter panicked
interpret_step(instructions, st, inp, checks) ==
    IF ~(st.pc < VLen(instructions)) THEN [st EXCEPT !.status = "halt"]
    ELSE LET r == interpret_op(instructions, st, inp, checks)
         IN  IF r.panic THEN [st EXCEPT !.status = "panic"]
             ELSE [r.val EXCEPT !.pc = r.val.pc + 1]

RECURSIVE interpret_loop(_, _, _, _, _)
interpret_loop(instructions, st, inp, checks, n) ==
    IF st.status # "running" THEN st
    ELSE IF n <= 1 THEN interpret_step(instructions, st, inp, checks)
    ELSE interpret_loop(instructions,
                        interpret_loop(instructions, st, inp, checks, n \div 2),
                        inp, checks, n - n \div 2)

\* Interpreter { program_counter: 0, memory_pointer: 0, memory: [0; MAX_MEMORY], .. }
\* run for at most MaxSteps iterations
interpret(instructions, inp, checks) ==
    LET st == interpret_loop(instructions,
                   [status |-> "running", pc |-> 0, ptr |-> 0, mem |-> ZeroTape,
                    inpos |-> 1, out |-> <<>>],
                   inp, checks, MaxSteps)
    IN  Outcome(st.status, st)

-----------------------------------------------------------------------------
(* compiler.rs: the jump labels of compile().  A label "[D_N" / "]D_N" is   *)
(* the pair <<D, N>> in the map of the open, resp. close, labels; it maps   *)
(* to the position in the walked chain of the op it was recorded at.        *)

IdAt(stack, d) == IF d \in DOMAIN stack THEN stack[d] ELSE 0
Put(map, key, v) == [x \in DOMAIN map \cup {key} |-> IF x = key THEN v ELSE map[x]]

\* pass 1 (lines 57-96): the iteration for the op at chain position st.k
label_step(chain, st) ==
    LET k == st.k
    IN  CASE chain[k].kind = "JumpIfZero" ->
                LET d == st.depth + 1
                    n == IdAt(st.id_stack, d) + 1
                IN  IF d >= ID_STACK THEN [st EXCEPT !.panic = TRUE]  \* parentheses_id_stack[depth]
                    ELSE [st EXCEPT !.k = k + 1, !.depth = d,
                                    !.id_stack = Put(@, d, n),
                                    !.lab = Append(@, <<d, n>>),
                                    !.open = Put(@, <<d, n>>, k)]
           [] chain[k].kind = "JumpIfNotZero" ->
                LET l == <<st.depth, IdAt(st.id_stack, st.depth)>>
                IN  IF l \notin DOMAIN st.open
                    THEN [st EXCEPT !.panic = TRUE]     \* jne_label: expect("label does not exists")
                    ELSE [st EXCEPT !.k = k + 1, !.depth = st.depth - 1,
                                    !.lab = Append(@, l),
                                    !.close = Put(@, l, k)]
           [] OTHER -> [st EXCEPT !.k = k + 1, !.lab = Append(@, <<0, 0>>)]

RECURSIVE label_loop(_, _, _)
label_loop(chain, st, n) ==
    IF st.k > Len(chain) \/ st.panic THEN st
    ELSE IF n <= 1 THEN label_step(chain, st)
    ELSE label_loop(chain, label_loop(chain, st, n \div 2), n - n \div 2)

\* pass 1 over the chain, then the lookups of pass 2 (lines 116-120): Panic,
\* or the label of every jump and the maps of the open and close labels
compile_labels(chain) ==
    LET st == label_loop(chain,
                         [k |-> 1, depth |-> 0, id_stack |-> <<>>, panic |-> FALSE,
                          lab |-> <<>>, open |-> <<>>, close |-> <<>>],
                         Len(chain) + 1)
    IN  IF st.panic THEN Panic
        ELSE IF ~(DOMAIN st.open \subseteq DOMAIN st.close)
        THEN Panic                                  \* je_label: expect("label does not exists")
        ELSE Ok([lab |-> st.lab, open |-> st.open, close |-> st.close])

-----------------------------------------------------------------------------
(* Execution of the code compile() emits, op by op.  The data pointer (R14) *)
(* is kept as its offset from the tape base; the emitted code checks no     *)
(* bounds, so an access outside the tape is undefined behaviour ("ub").     *)

\* mov byte ptr [r14], imm8
exec_SetIndirect(st, c) == [st EXCEPT !.mem = Store(st.mem, st.ptr, c)]

\* the state after the code of the op at chain position st.k, or after the
\* epilogue; .k is the position of the op executed next
exec_op(chain, labels, st, inp) ==
    IF st.k > Len(chain) THEN [st EXCEPT !.status = "halt"]     \* epilogue; ret
    ELSE
    LET op == chain[st.k]
        p == st.ptr
        step(s) == [s EXCEPT !.k = s.k + 1]
        stop(w) == [st EXCEPT !.status = w]
    IN  CASE op.kind = "Right" -> step([st EXCEPT !.ptr = p + op.data])
          [] op.kind = "Left" -> step([st EXCEPT !.ptr = p - op.data])
          [] op.kind \in {"Add", "Sub", "SetIndirect", "Write", "JumpIfZero", "JumpIfNotZero"}
               /\ ~InTape(p) -> stop("ub")
          [] op.kind = "Add" ->
                step([st EXCEPT !.mem = Store(st.mem, p, (Cell(st.mem, p) + op.data) % Byte)])
          [] op.kind = "Sub" ->
                step([st EXCEPT !.mem = Store(st.mem, p, (Cell(st.mem, p) - op.data) % Byte)])
          [] op.kind = "SetIndirect" -> step(exec_SetIndirect(st, op.data))
          [] op.kind = "Write" -> step([st EXCEPT !.out = Append(st.out, Cell(st.mem, p))])
          [] op.kind = "Read" ->
                IF st.inpos > Len(inp) THEN stop("panic")      \* getchar: expect("cannot read from stdin")
                ELSE IF ~InTape(p) THEN stop("ub")
                ELSE step([st EXCEPT !.mem = Store(st.mem, p, inp[st.inpos]),
                                     !.inpos = st.inpos + 1])
          [] op.kind = "JumpIfZero" ->       \* cmp byte ptr [r14], 0; je "]D_N"
                IF Cell(st.mem, p) = 0
                THEN step([st EXCEPT !.k = labels.close[labels.lab[st.k]]])
                ELSE step(st)
          [] op.kind = "JumpIfNotZero" ->    \* cmp byte ptr [r14], 0; jne "[D_N"
                IF Cell(st.mem, p) # 0
                THEN [st EXCEPT !.k = labels.open[labels.lab[st.k]]]
                ELSE step(st)

RECURSIVE exec_loop(_, _, _, _, _)
exec_loop(chain, labels, st, inp, n) ==
    IF st.status # "running" THEN st
    ELSE IF n <= 1 THEN exec_op(chain, labels, st, inp)
    ELSE exec_loop(chain, labels, exec_loop(chain, labels, st, inp, n \div 2),
                   inp, n - n \div 2)

\* IrCode::compile followed by Brainfuck::execute, run for at most MaxSteps ops
compile_execute(o, inp) ==
    LET start == [status |-> "running", k |-> 1, ptr |-> 0, mem |-> ZeroTape,
                  inpos |-> 1, out |-> <<>>]
        labels == compile_labels(iter(o))
    IN  IF IrCode_len(o).panic \/ labels.panic THEN Outcome("panic", start)
        ELSE LET st == exec_loop(iter(o), labels.val, start, inp, MaxSteps)
             IN  Outcome(st.status, st)

-----------------------------------------------------------------------------
(* assembler.rs: the encodings.  An instruction is the sequence of the      *)
(* bytes its method puts, in order.                                         *)

\* enum X64Register
RAX == 0
RCX == 1
RBX == 3
RSP == 4
R12 == 12
R13 == 13
R14 == 14

is_extended(reg) == reg > 7
\* `self as u8 & 7`
to_u8(reg) == reg % 8

\* the bits of a byte, lowest first, and the byte of eight bits
Bits(v) == [i \in 0 .. 7 |-> (v \div 2 ^ i) % 2]
RECURSIVE FromBits(_, _)
FromBits(b, i) == IF i > 7 THEN 0 ELSE b[i] * 2 ^ i + FromBits(b, i + 1)
\* u8 | u8
BitOr(x, y) == FromBits([i \in 0 .. 7 |-> IF Bits(x)[i] = 1 \/ Bits(y)[i] = 1 THEN 1 ELSE 0], 0)
\* u8 << n
Shl(x, n) == (x * 2 ^ n) % Byte

\* bitflags Rex; `empty()` has no bit
REX_B == 65
REX_R == 68
REX_W == 72
REX_EMPTY == 0

\* imm32: four bytes, lowest first
imm32(imm) ==
    <<imm % Byte, (imm \div Byte) % Byte, (imm \div Byte ^ 2) % Byte, (imm \div Byte ^ 3) % Byte>>

\* imm64: eight bytes, lowest first
imm64(imm) ==
    LET hi == imm \div Byte ^ 3
    IN  <<imm % Byte, (imm \div Byte) % Byte, (imm \div Byte ^ 2) % Byte, hi % Byte,
          (hi \div Byte) % Byte, (hi \div Byte ^ 2) % Byte, (hi \div Byte ^ 3) % Byte,
          ((hi \div Byte ^ 3) \div Byte) % Byte>>

mod_rm(reg_opcode, mod, rm) == <<BitOr(BitOr(Shl(mod, 6), Shl(reg_opcode, 3)), rm)>>
sib(base, scale, index) == <<BitOr(BitOr(Shl(scale, 6), Shl(index, 3)), base)>>

\* `Rex::W | if reg.is_extended() { Rex::B } else { Rex::empty() }`
rex_w_b(reg) == BitOr(REX_W, IF is_extended(reg) THEN REX_B ELSE REX_EMPTY)

mov(reg, imm) == <<rex_w_b(reg), 184 + to_u8(reg)>> \o imm64(imm)
add(reg, imm) == <<rex_w_b(reg), 129>> \o mod_rm(0, 3, to_u8(reg)) \o imm32(imm)
sub(reg, imm) == <<rex_w_b(reg), 129>> \o mod_rm(5, 3, to_u8(reg)) \o imm32(imm)

\* the ModR/M (and SIB or disp8) bytes of `[memory]` with the register field reg
at_memory(reg, memory) ==
    CASE memory = R12 -> mod_rm(reg, 0, 4) \o sib(4, 0, 4)
      [] memory = R13 -> mod_rm(reg, 1, 5) \o <<0>>
      [] OTHER -> mod_rm(reg, 0, to_u8(memory))

op_80(opcode, memory, imm) ==
    (IF is_extended(memory) THEN <<REX_B>> ELSE <<>>)
        \o <<128>> \o at_memory(opcode, memory) \o <<imm>>

add_indirect(memory, imm) == op_80(0, memory, imm)
sub_indirect(memory, imm) == op_80(5, memory, imm)
cmp_indirect(memory, imm) == op_80(7, memory, imm)

mov_to_reg(to, from_memory) ==
    LET rex == BitOr(rex_w_b(from_memory), IF is_extended(to) THEN REX_R ELSE REX_EMPTY)
    IN  <<rex, 15, 182>> \o at_memory(to_u8(to), from_memory)

mov_to_memory(to_memory, from_reg) ==
    LET rex == BitOr(IF is_extended(to_memory) THEN REX_B ELSE REX_EMPTY,
                     IF is_extended(from_reg) THEN REX_R ELSE REX_EMPTY)
    IN  (IF rex # REX_EMPTY THEN <<rex>> ELSE <<>>)
            \o <<136>> \o at_memory(to_u8(from_reg), to_memory)

je(relative_addr) == <<15, 132>> \o imm32(relative_addr)
jne(relative_addr) == <<15, 133>> \o imm32(relative_addr)

\* `self.mod_rm(2, 11, reg.to_u8())`
call(reg) ==
    (IF is_extended(reg) THEN <<REX_B>> ELSE <<>>) \o <<255>> \o mod_rm(2, 11, to_u8(reg))

ret == <<195>>

(* The methods compile() calls that assembler.rs does not define, after the *)
(* instructions the specification names for them.                           *)

\* push r64
push(reg) == (IF is_extended(reg) THEN <<REX_B>> ELSE <<>>) \o <<80 + to_u8(reg)>>
\* pop r64
pop(reg) == (IF is_extended(reg) THEN <<REX_B>> ELSE <<>>) \o <<88 + to_u8(reg)>>
\* mov byte ptr [memory], imm8
mov_indirect(memory, imm) ==
    (IF is_extended(memory) THEN <<REX_B>> ELSE <<>>)
        \o <<198>> \o at_memory(0, memory) \o <<imm>>
\* imul rax, reg
mul_signed(reg) ==
    <<BitOr(REX_W, IF is_extended(reg) THEN REX_B ELSE REX_EMPTY), 15, 175>>
        \o mod_rm(RAX, 3, to_u8(reg))
\* add byte ptr [memory + offset], reg8
add_to_mem_offset(memory, reg, offset) ==
    LET rex == BitOr(IF is_extended(memory) THEN REX_B ELSE REX_EMPTY,
                     IF is_extended(reg) THEN REX_R ELSE REX_EMPTY)
    IN  (IF rex # REX_EMPTY THEN <<rex>> ELSE <<>>)
            \o <<0>> \o mod_rm(to_u8(reg), 1, to_u8(memory)) \o <<offset>>

-----------------------------------------------------------------------------
(* compiler.rs: compile(), writing the bytes into the buffer.               *)

\* the addresses compile() is given: the two callbacks and the tape
putchar_ptr == 16 * 4096
getchar_ptr == 17 * 4096
memory_ptr == 32 * 4096

\* the fill of Brainfuck::new
INT3 == 204
\* the displacement of a je that is not resolved yet
PLACEHOLDER == 11189196
\* the stack adjustment of the prologue and the epilogue
FRAME == 168

NoAssembler == [data |-> <<>>, addr |-> 0, labels |-> <<>>, panic |-> FALSE]
\* no Assembler method called by a test
NoCall == [method |-> "none", memory |-> 0, reg |-> 0, imm |-> 0]
NoCompile == [k |-> 0, depth |-> 0, id_stack |-> <<>>, length |-> 0,
              jumps_to_fix |-> {}, starts |-> <<>>]

\* Assembler::put, for each byte of an instruction in turn; the index out of
\* the buffer panics
put(a, bytes) ==
    LET n == Len(bytes)
        fits == a.addr + n <= VLen(a.data)
    IN  [a EXCEPT !.data = [i \in DOMAIN a.data |->
                               IF i >= a.addr /\ i < a.addr + n
                               THEN bytes[i - a.addr + 1] ELSE a.data[i]],
                  !.addr = IF fits THEN a.addr + n ELSE VLen(a.data),
                  !.panic = a.panic \/ ~fits]

\* Assembler::label
label(a, key) == [a EXCEPT !.labels = Put(a.labels, key, a.addr)]

\* Assembler::jne_label, je_label: the label must exist
jne_label(a, key) ==
    IF key \notin DOMAIN a.labels THEN [a EXCEPT !.panic = TRUE]
    ELSE put(a, jne(a.labels[key] - (a.addr + 6)))
je_label(a, key) ==
    IF key \notin DOMAIN a.labels THEN [a EXCEPT !.panic = TRUE]
    ELSE put(a, je(a.labels[key] - (a.addr + 6)))

\* mutant: the frame is 8 bytes smaller
prologue_frame_minus_8 ==
    push(RBX) \o push(R12) \o push(R13) \o push(R14) \o sub(RSP, FRAME - 8)
        \o mov(R12, putchar_ptr) \o mov(R13, getchar_ptr) \o mov(R14, memory_ptr)

\* the prologue (lines 43-51)
prologue ==
    push(RBX) \o push(R12) \o push(R13) \o push(R14) \o sub(RSP, FRAME)
        \o mov(R12, putchar_ptr) \o mov(R13, getchar_ptr) \o mov(R14, memory_ptr)

\* mutant: the registers are popped in the order they were pushed
epilogue_push_order ==
    add(RSP, FRAME) \o pop(RBX) \o pop(R12) \o pop(R13) \o pop(R14) \o ret

\* the epilogue (lines 98-104)
epilogue ==
    add(RSP, FRAME) \o pop(R14) \o pop(R13) \o pop(R12) \o pop(RBX) \o ret

\* mutant: Read calls the callback held in R12
op_bytes_read_calls_r12(op) ==
    CASE op.kind = "Noop" -> <<>>
      [] op.kind = "Right" -> add(R14, op.data)
      [] op.kind = "Left" -> sub(R14, op.data)
      [] op.kind = "Add" -> add_indirect(R14, op.data)
      [] op.kind = "Sub" -> sub_indirect(R14, op.data)
      [] op.kind = "SetIndirect" -> mov_indirect(R14, op.data)
      [] op.kind = "MulCopy" ->
            mov_to_reg(RAX, R14) \o mov(RBX, op.factor)
                \o (IF op.factor # 1 THEN mul_signed(RBX) ELSE <<>>)
                \o add_to_mem_offset(R14, RAX, op.data)
      [] op.kind = "Write" -> mov_to_reg(RCX, R14) \o call(R12)
      [] op.kind = "Read" -> call(R12) \o mov_to_memory(R14, RAX)

\* the bytes of an op that is no jump
op_bytes(op) ==
    CASE op.kind = "Noop" -> <<>>
      [] op.kind = "Right" -> add(R14, op.data)
      [] op.kind = "Left" -> sub(R14, op.data)
      [] op.kind = "Add" -> add_indirect(R14, op.data)
      [] op.kind = "Sub" -> sub_indirect(R14, op.data)
      [] op.kind = "SetIndirect" -> mov_indirect(R14, op.data)
      [] op.kind = "MulCopy" ->
            mov_to_reg(RAX, R14) \o mov(RBX, op.factor)
                \o (IF op.factor # 1 THEN mul_signed(RBX) ELSE <<>>)
                \o add_to_mem_offset(R14, RAX, op.data)
      [] op.kind = "Write" -> mov_to_reg(RCX, R14) \o call(R12)
      [] op.kind = "Read" -> call(R13) \o mov_to_memory(R14, RAX)

\* mutant: an open bracket takes the id of the loop before it at its depth
emit_op_same_id(a, c, op) ==
    LET c1 == [c EXCEPT !.k = c.k + 1, !.starts = Append(c.starts, a.addr)]
    IN  CASE op.kind = "JumpIfZero" ->
                LET d == c.depth + 1
                    n == IdAt(c.id_stack, d)
                IN  IF d >= ID_STACK THEN [a |-> [a EXCEPT !.panic = TRUE], c |-> c1]
                    ELSE [a |-> put(put(label(a, <<"[", d, n>>), cmp_indirect(R14, 0)),
                                    je(PLACEHOLDER)),
                          c |-> [c1 EXCEPT !.depth = d, !.id_stack = Put(c.id_stack, d, n)]]
          [] op.kind = "JumpIfNotZero" ->
                LET d == c.depth
                    n == IdAt(c.id_stack, d)
                    a1 == jne_label(put(a, cmp_indirect(R14, 0)), <<"[", d, n>>)
                IN  IF a1.panic THEN [a |-> a1, c |-> c1]
                    ELSE [a |-> label(a1, <<"]", d, n>>), c |-> [c1 EXCEPT !.depth = d - 1]]
          [] OTHER -> [a |-> put(a, op_bytes(op)), c |-> c1]

\* compile(): one iteration of `for op in self.iter()`
emit_op(a, c, op) ==
    LET c1 == [c EXCEPT !.k = c.k + 1, !.starts = Append(c.starts, a.addr)]
    IN  CASE op.kind = "JumpIfZero" ->
                LET d == c.depth + 1
                    n == IdAt(c.id_stack, d) + 1
                IN  IF d >= ID_STACK THEN [a |-> [a EXCEPT !.panic = TRUE], c |-> c1]
                    ELSE [a |-> put(put(label(a, <<"[", d, n>>), cmp_indirect(R14, 0)),
                                    je(PLACEHOLDER)),
                          c |-> [c1 EXCEPT !.depth = d, !.id_stack = Put(c.id_stack, d, n)]]
          [] op.kind = "JumpIfNotZero" ->
                LET d == c.depth
                    n == IdAt(c.id_stack, d)
                    a1 == jne_label(put(a, cmp_indirect(R14, 0)), <<"[", d, n>>)
                IN  IF a1.panic THEN [a |-> a1, c |-> c1]
                    ELSE [a |-> label(a1, <<"]", d, n>>), c |-> [c1 EXCEPT !.depth = d - 1]]
          [] OTHER -> [a |-> put(a, op_bytes(op)), c |-> c1]

\* `/* 2. resolve jumps */`: the labels that start with '['
jumps_of(labels) == {key \in DOMAIN labels : key[1] = "["}

\* mutant: the cursor is not moved to the label
fix_jump_no_seek(a, key) ==
    je_label(put(a, cmp_indirect(R14, 0)), <<"]", key[2], key[3]>>)

\* one iteration of `for (k, v) in jumps_to_fix`
fix_jump(a, key) ==
    je_label(put([a EXCEPT !.addr = a.labels[key]], cmp_indirect(R14, 0)),
             <<"]", key[2], key[3]>>)

\* compile() as a whole.  The first pass: Brainfuck::new, the prologue, up
\* to n iterations of the loop over the ops
RECURSIVE emit_loop(_, _, _)
emit_loop(chain, st, n) ==
    IF st.c.k >= Len(chain) \/ st.a.panic THEN st
    ELSE IF n <= 1 THEN emit_op(st.a, st.c, chain[st.c.k + 1])
    ELSE emit_loop(chain, emit_loop(chain, st, n \div 2), n - n \div 2)

\* the assembler and the locals after the epilogue; length is the cursor
first_pass(o) ==
    LET chain == iter(o)
        buffer == [i \in 0 .. 256 + IrCode_len(o).val * 16 - 1 |-> INT3]
        st == emit_loop(chain, [a |-> put([NoAssembler EXCEPT !.data = buffer], prologue),
                                c |-> NoCompile], Len(chain))
        a == IF st.a.panic THEN st.a ELSE put(st.a, epilogue)
    IN  [a |-> a, c |-> [st.c EXCEPT !.length = a.addr]]

\* the second pass, visiting the labels by ascending address
RECURSIVE fix_jumps(_, _)
fix_jumps(a, keys) ==
    IF keys = {} \/ a.panic THEN a
    ELSE LET key == CHOOSE x \in keys : \A y \in keys : a.labels[x] <= a.labels[y]
         IN  fix_jumps(fix_jump(a, key), keys \ {key})

\* the assembler when compile() returns
compile(o) ==
    LET r == first_pass(o)
    IN  IF r.a.panic THEN r.a ELSE fix_jumps(r.a, jumps_of(r.a.labels))

-----------------------------------------------------------------------------
(* compiler.rs: execute().  The processor runs the bytes of the buffer from *)
(* its first byte, as a function the caller called: the return address is  *)
(* on top of the stack.  The tape is the MAX_MEMORY bytes at the address    *)
(* compile() loaded into R14; an access outside it is undefined ("ub").     *)
(* The callbacks are putchar and getchar of compiler.rs (extern "win64"):   *)
(* they may use the 32 bytes above the return address and the volatile      *)
(* registers, and they keep the others.                                     *)

\* the stack pointer at entry (8 below a multiple of 16) and the address the
\* caller continues at
STACK_ENTRY == 64 * 4096 - 8
RETURN_ADDR == 48 * 4096
\* what a callback leaves in a register or stack slot it is free to use
GARBAGE == 57005
\* the bytes a callback may use above its return address
SHADOW == 32

\* the registers at entry: the caller's values
EntryRegs == [r \in 0 .. 15 |-> IF r = RSP THEN STACK_ENTRY ELSE 1000 + r]

NoEvent == [fn |-> "none", arg |-> 0, rsp |-> 0, val |-> 0]
NoCpu == [status |-> "off", rip |-> 0, regs |-> <<>>, zf |-> FALSE, stack |-> <<>>,
          mem |-> ZeroTape, out |-> <<>>, inpos |-> 1, calls |-> 0, event |-> NoEvent]

\* the state at the first instruction
EntryCpu == [status |-> "running", rip |-> 0, regs |-> EntryRegs, zf |-> FALSE,
             stack |-> Put(<<>>, STACK_ENTRY, RETURN_ADDR),
             mem |-> ZeroTape, out |-> <<>>, inpos |-> 1, calls |-> 0, event |-> NoEvent]

\* the byte at an address of the buffer, INT3 beyond the instruction stream
ByteAt(data, a) == IF a \in DOMAIN data THEN data[a] ELSE INT3
\* a 32-bit little-endian value read as signed
Rel32(data, a) ==
    ByteAt(data, a) + Byte * ByteAt(data, a + 1) + Byte ^ 2 * ByteAt(data, a + 2)
        + Byte ^ 3 * as_i8(ByteAt(data, a + 3))
\* a byte read as a signed displacement
Disp8(data, a) == as_i8(ByteAt(data, a))

\* the instruction at rip: its mnemonic, its length and its operands
decode(data, rip) ==
    LET b0 == ByteAt(data, rip)
        rex == IF b0 >= 64 /\ b0 <= 79 THEN b0 ELSE 0
        o == IF rex # 0 THEN rip + 1 ELSE rip
        rexB == Bits(rex)[0]
        rexR == Bits(rex)[2]
        rexW == Bits(rex)[3]
        opc == ByteAt(data, o)
        modrm == ByteAt(data, o + 1)
        mod == modrm \div 64
        reg == (modrm \div 8) % 8
        rm == (modrm % 8) + 8 * rexB
        modrm2 == ByteAt(data, o + 2)
        ins(name, len, r, m, imm) ==
            [name |-> name, next |-> o + len, reg |-> r, rm |-> m, imm |-> imm]
        bad == ins("trap", 1, 0, 0, 0)
    IN  CASE opc >= 80 /\ opc <= 87 -> ins("push", 1, opc - 80 + 8 * rexB, 0, 0)
          [] opc >= 88 /\ opc <= 95 -> ins("pop", 1, opc - 88 + 8 * rexB, 0, 0)
          [] opc >= 184 /\ opc <= 191 /\ rexW = 1 ->
                IF \A i \in 5 .. 8 : ByteAt(data, o + i) = 0
                THEN ins("mov_imm", 9, opc - 184 + 8 * rexB, 0, Rel32(data, o + 1))
                ELSE bad
          [] opc = 129 /\ mod = 3 /\ reg = 0 /\ rexW = 1 -> ins("add", 6, 0, rm, Rel32(data, o + 2))
          [] opc = 129 /\ mod = 3 /\ reg = 5 /\ rexW = 1 -> ins("sub", 6, 0, rm, Rel32(data, o + 2))
          [] opc = 128 /\ mod = 0 /\ modrm % 8 \notin {4, 5} /\ reg \in {0, 5, 7} ->
                ins(CASE reg = 0 -> "add_byte" [] reg = 5 -> "sub_byte" [] reg = 7 -> "cmp_byte",
                    3, 0, rm, ByteAt(data, o + 2))
          [] opc = 198 /\ mod = 0 /\ modrm % 8 \notin {4, 5} /\ reg = 0 ->
                ins("mov_byte_imm", 3, 0, rm, ByteAt(data, o + 2))
          [] opc = 0 /\ mod = 1 /\ modrm % 8 # 4 ->
                ins("add_byte_reg", 3, reg + 8 * rexR, rm, Disp8(data, o + 2))
          [] opc = 136 /\ mod = 0 /\ modrm % 8 \notin {4, 5} ->
                ins("mov_byte_reg", 2, reg + 8 * rexR, rm, 0)
          [] opc = 15 /\ modrm = 182 /\ modrm2 \div 64 = 0 /\ modrm2 % 8 \notin {4, 5} ->
                ins("movzx", 3, ((modrm2 \div 8) % 8) + 8 * rexR, (modrm2 % 8) + 8 * rexB, 0)
          [] opc = 15 /\ modrm = 175 /\ modrm2 \div 64 = 3 /\ rexW = 1 ->
                ins("imul", 3, ((modrm2 \div 8) % 8) + 8 * rexR, (modrm2 % 8) + 8 * rexB, 0)
          [] opc = 15 /\ modrm = 132 -> ins("je", 6, 0, 0, Rel32(data, o + 2))
          [] opc = 15 /\ modrm = 133 -> ins("jne", 6, 0, 0, Rel32(data, o + 2))
          [] opc = 255 /\ mod = 3 /\ reg = 2 -> ins("call", 2, 0, rm, 0)
          [] opc = 195 -> ins("ret", 1, 0, 0, 0)
          [] OTHER -> bad

\* the registers a win64 callee may change
Volatile == {RAX, RCX, 2, 8, 9, 10, 11}

\* a callback has run and returned: it has used the shadow space and the
\* volatile registers, and left rax in RAX
after_callback(c, rax) ==
    [c EXCEPT !.regs = [r \in 0 .. 15 |->
                          IF r = RAX THEN rax
                          ELSE IF r \in Volatile THEN GARBAGE ELSE c.regs[r]],
              !.stack = [a \in DOMAIN c.stack \cup {c.regs[RSP] + 8 * i : i \in 0 .. SHADOW \div 8 - 1} |->
                            IF a >= c.regs[RSP] /\ a < c.regs[RSP] + SHADOW
                            THEN GARBAGE ELSE c.stack[a]]]

\* `call target`: putchar (compiler.rs:8-10), getchar (12-16), or code
do_call(c, i, inp, high) ==
    LET target == c.regs[i.rm]
        ev(fn, val) == [fn |-> fn, arg |-> c.regs[RCX] % Byte, rsp |-> c.regs[RSP], val |-> val]
    IN  CASE target = putchar_ptr ->
                [after_callback(c, GARBAGE) EXCEPT
                    !.rip = i.next, !.out = Append(c.out, c.regs[RCX] % Byte),
                    !.calls = c.calls + 1, !.event = ev("putchar", 0)]
          [] target = getchar_ptr ->
                IF c.inpos > Len(inp) THEN [c EXCEPT !.status = "panic"]
                ELSE [after_callback(c, inp[c.inpos] + Byte * high) EXCEPT
                         !.rip = i.next, !.inpos = c.inpos + 1,
                         !.calls = c.calls + 1, !.event = ev("getchar", inp[c.inpos])]
          [] OTHER ->
                [c EXCEPT !.rip = target,
                          !.regs[RSP] = c.regs[RSP] - 8,
                          !.stack = Put(c.stack, c.regs[RSP] - 8, i.next)]

\* the processor executes the instruction at rip; high is what a callback
\* leaves above the byte it returns
exec_instruction(c, data, inp, high) ==
    LET i == decode(data, c.rip)
        cell_at(a) == a - memory_ptr
        go(c2) == [c2 EXCEPT !.rip = i.next]
        stop(w) == [c EXCEPT !.status = w]
        byte_op(a, f(_)) ==
            IF ~InTape(cell_at(a)) THEN stop("ub")
            ELSE LET v == f(Cell(c.mem, cell_at(a)))
                 IN  go([c EXCEPT !.mem = Store(c.mem, cell_at(a), v), !.zf = (v = 0)])
    IN  CASE i.name = "trap" -> stop("trap")
          [] i.name = "push" ->
                go([c EXCEPT !.regs[RSP] = c.regs[RSP] - 8,
                             !.stack = Put(c.stack, c.regs[RSP] - 8, c.regs[i.reg])])
          [] i.name = "pop" ->
                IF c.regs[RSP] \notin DOMAIN c.stack THEN stop("ub")
                ELSE go([c EXCEPT !.regs = [r \in 0 .. 15 |->
                                              CASE r = i.reg -> c.stack[c.regs[RSP]]
                                                [] r = RSP -> c.regs[RSP] + 8
                                                [] OTHER -> c.regs[r]]])
          [] i.name = "mov_imm" -> go([c EXCEPT !.regs[i.reg] = i.imm])
          [] i.name = "add" ->
                go([c EXCEPT !.regs[i.rm] = c.regs[i.rm] + i.imm, !.zf = (c.regs[i.rm] + i.imm = 0)])
          [] i.name = "sub" ->
                go([c EXCEPT !.regs[i.rm] = c.regs[i.rm] - i.imm, !.zf = (c.regs[i.rm] - i.imm = 0)])
          [] i.name = "add_byte" -> byte_op(c.regs[i.rm], LAMBDA v : (v + i.imm) % Byte)
          [] i.name = "sub_byte" -> byte_op(c.regs[i.rm], LAMBDA v : (v - i.imm) % Byte)
          [] i.name = "cmp_byte" ->
                IF ~InTape(cell_at(c.regs[i.rm])) THEN stop("ub")
                ELSE go([c EXCEPT !.zf = (Cell(c.mem, cell_at(c.regs[i.rm])) = i.imm)])
          [] i.name = "mov_byte_imm" ->
                IF ~InTape(cell_at(c.regs[i.rm])) THEN stop("ub")
                ELSE go([c EXCEPT !.mem = Store(c.mem, cell_at(c.regs[i.rm]), i.imm)])
          [] i.name = "mov_byte_reg" ->
                IF ~InTape(cell_at(c.regs[i.rm])) THEN stop("ub")
                ELSE go([c EXCEPT !.mem = Store(c.mem, cell_at(c.regs[i.rm]), c.regs[i.reg] % Byte)])
          [] i.name = "add_byte_reg" ->
                byte_op(c.regs[i.rm] + i.imm, LAMBDA v : (v + c.regs[i.reg]) % Byte)
          [] i.name = "movzx" ->
                IF ~InTape(cell_at(c.regs[i.rm])) THEN stop("ub")
                ELSE go([c EXCEPT !.regs[i.reg] = Cell(c.mem, cell_at(c.regs[i.rm]))])
          [] i.name = "imul" -> go([c EXCEPT !.regs[i.reg] = c.regs[i.reg] * c.regs[i.rm]])
          [] i.name = "je" -> [c EXCEPT !.rip = IF c.zf THEN i.next + i.imm ELSE i.next]
          [] i.name = "jne" -> [c EXCEPT !.rip = IF c.zf THEN i.next ELSE i.next + i.imm]
          [] i.name = "call" -> do_call(c, i, inp, high)
          [] i.name = "ret" ->
                IF c.regs[RSP] \notin DOMAIN c.stack THEN stop("ub")
                ELSE [c EXCEPT !.rip = c.stack[c.regs[RSP]],
                               !.regs[RSP] = c.regs[RSP] + 8,
                               !.status = IF c.stack[c.regs[RSP]] = RETURN_ADDR
                                          THEN "returned" ELSE "running"]

-----------------------------------------------------------------------------
(* The inputs of the pipeline *)

Alphabet == {">", "<", "+", "-", ".", ",", "[", "]", "x"}
InputBytes == {0, 97, 98, 99}

\* the programs of the tests of ir.rs and interpreter.rs
TestSources == {
    <<"+", "-", "<", ">", ".", ",">>,
    <<"+", "+", "+", ">", "+">>,
    <<"+", "+", "+", ">", "+", "+">>,
    <<"-", "-", "-", ">", "-">>,
    <<">", ">", "+", ">", ">", ">", "-", "<", "<", "<", "<", "+">>,
    <<"[", "-", "]", ">", "[", "+", "]", ">">>,
    <<"+", "[", "-", "]", "+", "+", "+", "+", "+", ">", "-", "[", "+", "]", "-", "-", "-", "-">>,
    <<"+", "[", "-", "]", "+", "+", "+", "+", "+", "-", "[", "+", "]", "-", "-", "-", "-">>,
    <<"+", ">", "+", "+", "+", "[", "-", "]">>,
    <<",", ">", ",", ">", ",">>,
    <<"+", "+", "+", "+", "+", "+", "+", "+", "[", "-", ">", "+", "+", "+", "+", "+", "+", "+", "<", "]", ">", ".">> }

\* runs of one character followed by a run of another, long enough for the
\* u8 payloads to reach their limits
RunSources ==
    {Rep(a, n) \o Rep(b, m) \o t :
        a \in {">", "+", "-"}, b \in {">", "<", "+", "-"},
        n \in {Byte \div 2, Byte \div 2 + Byte \div 4, Byte},
        m \in {0, 1, Byte \div 4},
        t \in {<<>>, <<".">>}}

\* a cleared cell decremented and incremented again
ClearSources ==
    {<<"[", "-", "]">> \o Rep("-", n) \o Rep("+", m) : n \in 0 .. 2, m \in 0 .. 3}

\* longer sources over the cell operations and loops, and over the moves
CellSources == SeqsUpTo({"+", "-", "[", "]"}, MaxLen + 2)
MoveSources == SeqsUpTo({">", "<", "+", "."}, MaxLen + 2)

Sources ==
    SeqsUpTo(Alphabet, MaxLen) \cup CellSources \cup MoveSources
        \cup TestSources \cup RunSources \cup ClearSources

Count(s, c) == Cardinality({i \in DOMAIN s : s[i] = c})
Min(a, b) == IF a < b THEN a ELSE b

\* the inputs that make a difference to a source: no longer than its reads
InputsFor(s) == SeqsUpTo(InputBytes, Min(MaxInput, Count(s, ",")))

-----------------------------------------------------------------------------
(* The pipeline: Program::from_string, IrCode::new, IrCode::optimize (one   *)
(* step per call of optimize_program_once), compile and execute.            *)

Init ==
    /\ overflow_checks \in BOOLEAN
    /\ source \in Sources
    /\ input \in InputsFor(source)
    /\ pc = "start"
    /\ program = <<>>
    /\ ops0 = <<>>
    /\ ops = <<>>
    /\ old = 0
    /\ passes = 0
    /\ last_len = 0
    /\ run = [ref |-> NotRun, unopt |-> NotRun, opt |-> NotRun]
    /\ asm = NoAssembler
    /\ cc = NoCompile
    /\ cpu = NoCpu
    /\ asm_call = NoCall

\* Program::from_string(source)
Parse ==
    /\ pc = "start"
    /\ program' = from_string(source)
    /\ pc' = "parsed"
    /\ UNCHANGED <<overflow_checks, source, input, ops0, ops, old, passes, last_len, run, jitvars>>

\* IrCode::new(&program)
Build ==
    /\ pc = "parsed"
    /\ LET r == IrCode_new(program)
       IN  IF r.panic
           THEN pc' = "abort_new" /\ UNCHANGED <<ops0, ops>>
           ELSE pc' = "built" /\ ops0' = r.val /\ ops' = r.val
    /\ UNCHANGED <<overflow_checks, source, input, program, old, passes, last_len, run, jitvars>>

\* optimize(): `let mut old = self.optimize_program_once();`
OptimizeFirst ==
    /\ pc = "built"
    /\ LET r == optimize_program_once(ops, overflow_checks)
       IN  IF r.panic
           THEN pc' = "abort_optimize" /\ UNCHANGED <<ops, old, passes, last_len>>
           ELSE /\ pc' = "optimizing"
                /\ ops' = r.val.ops
                /\ old' = r.val.len
                /\ last_len' = r.val.len
                /\ passes' = passes + 1
    /\ UNCHANGED <<overflow_checks, source, input, program, ops0, run, jitvars>>

\* mutant: the loop goes on while the count does not grow
optimize_break_strict(new, old_) == new > old_
\* mutant: the loop ends after its first iteration
optimize_break_always(new, old_) == TRUE

\* optimize(): the test `if new >= old { break; }` of the loop
optimize_break(new, old_) == new >= old_

\* optimize(): one iteration of the loop
\* `let new = self.optimize_program_once(); if new >= old { break; } old = new;`
OptimizeNext ==
    /\ pc = "optimizing"
    /\ LET r == optimize_program_once(ops, overflow_checks)
       IN  IF r.panic
           THEN pc' = "abort_optimize" /\ UNCHANGED <<ops, old, passes, last_len>>
           ELSE /\ ops' = r.val.ops
                /\ last_len' = r.val.len
                /\ passes' = passes + 1
                /\ IF optimize_break(r.val.len, old)
                   THEN pc' = "optimized" /\ old' = old
                   ELSE pc' = "optimizing" /\ old' = r.val.len
    /\ UNCHANGED <<overflow_checks, source, input, program, ops0, run, jitvars>>

\* compile() and execute() of the optimized chain; beside it, for comparison,
\* of the chain as built, and the reference interpreter on the program
Execute ==
    /\ pc = "optimized"
    /\ run' = [ref |-> interpret(program, input, overflow_checks),
               unopt |-> compile_execute(ops0, input),
               opt |-> compile_execute(ops, input)]
    /\ pc' = "done"
    /\ UNCHANGED <<overflow_checks, source, input, program, ops0, ops, old, passes, last_len, jitvars>>

Next == Parse \/ Build \/ OptimizeFirst \/ OptimizeNext \/ Execute

Spec == Init /\ [][Next]_vars

-----------------------------------------------------------------------------
(* The JIT path of main.rs jit(): IrCode::new, optimize() unless the        *)
(* `unoptimize` flag is given, compile() one step per emitted op and per    *)
(* patched jump, and execute() one step per machine instruction.  The       *)
(* tests of compiler.rs enter it with an IrCode they construct themselves.  *)

\* the length of the sources enumerated in full
MaxJitLen == 2
\* the longest run of MulCopy nodes
MaxMulCopies == 33

\* sources with nested and sibling loops, reads and writes; all of them halt
JitTestSources == {
    <<",", ">", ",", ">", ",">>,
    <<",", ".", ",", ".">>,
    <<"[", "]", "[", "]">>,
    <<"[", "[", "]", "[", "]", "]", "[", "]">>,
    <<"+", "[", "[", "-", "]", "]", ".">>,
    <<"+", "[", "[", ".", "-", "]", "]">>,
    <<",", "[", ".", "[", "-", "]", ",", "]">>,
    <<"+", "[", "-", "]", "+", "[", "-", "]">>,
    <<"+", "+", "[", "-", ">", "+", "+", "<", "]", ">", ".">>,
    <<"+", "+", "[", ">", "+", "+", "[", ">", "+", "<", "-", "]", "<", "-", "]", ">", ">", ".">>,
    <<"+", "[", "-", "[", "]", "]", "+", "[", ">", "]", "[", "]">> }

JitSources == SeqsUpTo(Alphabet, MaxJitLen) \cup JitTestSources

JitInputs == {<<>>, <<0>>, <<97>>, <<97, 98>>, <<97, 98, 99>>}
JitInputsFor(s) == {t \in JitInputs : Len(t) <= Count(s, ",")}

\* `IrCode { ops: vec![...] }` with each node linked to the one after it
LinkChain(s) ==
    [i \in 0 .. Len(s) - 1 |->
        [s[i + 1] EXCEPT !.next = IF i + 1 < Len(s) THEN i + 1 ELSE NoLink]]

\* the chains of the tests does_not_crash and copy_multiplied, the second
\* with other values, factors and offsets, and over a target cell that is
\* not zero
MulCopyChains ==
    {LinkChain(<<SetIndirect(0, c), MulCopy(0, off, f), Right(0, off), Write(0)>>) :
        c \in {0, 7, 200}, f \in {0, 1, 2, 11, 255}, off \in {1, 2}}
    \cup {LinkChain(<<Right(0, 2), Add(0, d), Left(0, 2), SetIndirect(0, 7), MulCopy(0, 2, f),
                      Write(0), Right(0, 2), Write(0)>>) :
            d \in {100, 250}, f \in {1, 11}}
\* runs of MulCopy nodes
MulCopyRuns ==
    {LinkChain([i \in 1 .. n |-> MulCopy(0, 1, f)]) :
        n \in {MaxMulCopies - 1, MaxMulCopies}, f \in {1, 2}}
DirectChains == {LinkChain(<<Noop(0)>>)} \cup MulCopyChains \cup MulCopyRuns

JitInit ==
    /\ overflow_checks \in BOOLEAN
    /\ \/ /\ source \in JitSources
          /\ input \in JitInputsFor(source)
          /\ pc = "start"
          /\ ops0 = <<>>
          /\ ops = <<>>
       \/ /\ source = <<>>
          /\ input = <<>>
          /\ pc = "built"
          /\ ops0 \in DirectChains
          /\ ops = ops0
    /\ program = <<>>
    /\ old = 0
    /\ passes = 0
    /\ last_len = 0
    /\ run = [ref |-> NotRun, unopt |-> NotRun, opt |-> NotRun]
    /\ asm = NoAssembler
    /\ cc = NoCompile
    /\ cpu = NoCpu
    /\ asm_call = NoCall

\* main.rs jit(): `if !matches.is_present("unoptimize")` with the flag given
SkipOptimize ==
    /\ pc = "built"
    /\ pc' = "unoptimized"
    /\ UNCHANGED <<overflow_checks, source, input, program, ops0, ops, old, passes, last_len, run, jitvars>>

\* compile(): len(), Brainfuck::new(256 + length * 16) and the prologue
CompileBegin ==
    /\ pc \in {"optimized", "unoptimized"}
    /\ LET length == IrCode_len(ops)
       IN  IF length.panic
           THEN pc' = "abort_compile" /\ UNCHANGED asm
           ELSE /\ pc' = "emitting"
                /\ asm' = put([NoAssembler EXCEPT !.data = [i \in 0 .. 256 + length.val * 16 - 1 |-> INT3]],
                              prologue)
    /\ cc' = NoCompile
    /\ UNCHANGED <<overflow_checks, source, input, program, ops0, ops, old, passes, last_len, run, cpu, asm_call>>

\* compile(): one iteration of `for op in self.iter()`
EmitOp ==
    /\ pc = "emitting"
    /\ cc.k < Len(iter(ops))
    /\ LET r == emit_op(asm, cc, iter(ops)[cc.k + 1])
       IN  /\ asm' = r.a
           /\ cc' = r.c
           /\ pc' = IF r.a.panic THEN "abort_compile" ELSE "emitting"
    /\ UNCHANGED <<overflow_checks, source, input, program, ops0, ops, old, passes, last_len, run, cpu, asm_call>>

\* compile(): the epilogue, `brainfuck.length = assembler.addr` and the
\* collection of jumps_to_fix
CompileEnd ==
    /\ pc = "emitting"
    /\ cc.k = Len(iter(ops))
    /\ LET a == put(asm, epilogue)
       IN  /\ asm' = a
           /\ IF a.panic
              THEN pc' = "abort_compile" /\ UNCHANGED cc
              ELSE /\ cc' = [cc EXCEPT !.length = a.addr, !.jumps_to_fix = jumps_of(a.labels)]
                   /\ pc' = IF jumps_of(a.labels) = {} THEN "compiled" ELSE "patching"
    /\ UNCHANGED <<overflow_checks, source, input, program, ops0, ops, old, passes, last_len, run, cpu, asm_call>>

\* compile(): one iteration of `for (k, v) in jumps_to_fix`, in the order the
\* HashMap happens to yield
PatchJump ==
    /\ pc = "patching"
    /\ \E key \in cc.jumps_to_fix :
          LET a == fix_jump(asm, key)
          IN  /\ asm' = a
              /\ cc' = [cc EXCEPT !.jumps_to_fix = cc.jumps_to_fix \ {key}]
              /\ pc' = CASE a.panic -> "abort_compile"
                         [] cc.jumps_to_fix = {key} -> "compiled"
                         [] OTHER -> "patching"
    /\ UNCHANGED <<overflow_checks, source, input, program, ops0, ops, old, passes, last_len, run, cpu, asm_call>>

\* execute(): `compiled_brainfuck()` is called
Enter ==
    /\ pc = "compiled"
    /\ cpu' = EntryCpu
    /\ pc' = "running"
    /\ UNCHANGED <<overflow_checks, source, input, program, ops0, ops, old, passes, last_len, run, asm, cc, asm_call>>

\* the processor executes one instruction of the buffer
Step ==
    /\ pc = "running"
    /\ \E high \in {0, 1} :
          /\ cpu' = exec_instruction(cpu, asm.data, input, high)
          /\ pc' = IF cpu'.status = "running" THEN "running" ELSE "finished"
    /\ UNCHANGED <<overflow_checks, source, input, program, ops0, ops, old, passes, last_len, run, asm, cc, asm_call>>

JitNext ==
    \/ Parse \/ Build \/ SkipOptimize \/ OptimizeFirst \/ OptimizeNext
    \/ CompileBegin \/ EmitOp \/ CompileEnd \/ PatchJump \/ Enter \/ Step

JitSpec == JitInit /\ [][JitNext]_vars

-----------------------------------------------------------------------------
(* The unit tests of assembler.rs: an Assembler over a zeroed buffer of 32  *)
(* bytes, one method called with given arguments, the bytes compared.       *)

\* `Assembler { addr: 0, data: &mut [0; 32], labels: HashMap::new() }`
TestAssembler == [NoAssembler EXCEPT !.data = [i \in 0 .. 31 |-> 0]]

\* the sixteen registers of X64Register and the immediates of the tests
Registers == 0 .. 15
TestImmediates == {0, 1, 171, 255}

AsmInit ==
    /\ overflow_checks = TRUE
    /\ source = <<>>
    /\ input = <<>>
    /\ pc = "test"
    /\ program = <<>>
    /\ ops0 = <<>>
    /\ ops = <<>>
    /\ old = 0
    /\ passes = 0
    /\ last_len = 0
    /\ run = [ref |-> NotRun, unopt |-> NotRun, opt |-> NotRun]
    /\ asm = TestAssembler
    /\ cc = NoCompile
    /\ cpu = NoCpu
    /\ asm_call \in [method : {"none"}, memory : Registers, reg : Registers, imm : TestImmediates]

\* the test calls `method`, which puts `bytes`
TestCall(method, bytes) ==
    /\ pc = "test"
    /\ asm' = put(asm, bytes)
    /\ asm_call' = [asm_call EXCEPT !.method = method]
    /\ pc' = "tested"
    /\ UNCHANGED <<overflow_checks, source, input, program, ops0, ops, old, passes, last_len, run, cc, cpu>>

TestAddIndirect == TestCall("add_indirect", add_indirect(asm_call.memory, asm_call.imm))
TestSubIndirect == TestCall("sub_indirect", sub_indirect(asm_call.memory, asm_call.imm))
TestCmpIndirect == TestCall("cmp_indirect", cmp_indirect(asm_call.memory, asm_call.imm))
TestMovToReg == TestCall("mov_to_reg", mov_to_reg(asm_call.reg, asm_call.memory))
TestMovToMemory == TestCall("mov_to_memory", mov_to_memory(asm_call.memory, asm_call.reg))

AsmNext ==
    \/ TestAddIndirect \/ TestSubIndirect \/ TestCmpIndirect
    \/ TestMovToReg \/ TestMovToMemory

AsmSpec == AsmInit /\ [][AsmNext]_vars

-----------------------------------------------------------------------------
(* The reference interpreter, one step per iteration of the loop of         *)
(* interpret(), as the tests of interpreter.rs and main.rs interpreter()    *)
(* start it.                                                                *)

\* the length of the sources interpreted step by step
MaxInterpLen == 4
\* the iterations of interpret() followed
MaxInterpSteps == 60

\* mutant: the tape starts with a cell that is not zero
NewInterpreter_dirty_tape ==
    [status |-> "running", pc |-> 0, ptr |-> 0, mem |-> Store(ZeroTape, 0, 1),
     inpos |-> 1, out |-> <<>>, steps |-> 0]

\* Interpreter { program_counter: 0, memory_pointer: 0, memory: [0; MAX_MEMORY], .. };
\* steps counts the iterations of interpret()
NewInterpreter ==
    [status |-> "running", pc |-> 0, ptr |-> 0, mem |-> ZeroTape,
     inpos |-> 1, out |-> <<>>, steps |-> 0]

\* all short sources, the program of the test loops_work, and one that opens
\* with a loop and runs a loop later
InterpSources ==
    SeqsUpTo({"+", "-", ">", ",", "[", "]"}, MaxInterpLen)
        \cup {<<"+", ">", "+", "+", "+", "[", "-", "]">>,
              <<"[", "+", "]", "+", "+", "[", "-", "]">>}

InterpInit ==
    /\ overflow_checks \in BOOLEAN
    /\ source \in InterpSources
    /\ input \in JitInputsFor(source)
    /\ pc = "start"
    /\ program = <<>>
    /\ ops0 = <<>>
    /\ ops = <<>>
    /\ old = 0
    /\ passes = 0
    /\ last_len = 0
    /\ run = [ref |-> NotRun, unopt |-> NotRun, opt |-> NotRun]
    /\ asm = NoAssembler
    /\ cc = NoCompile
    /\ cpu = NoCpu
    /\ asm_call = NoCall

\* the Interpreter is made over the program
InterpStart ==
    /\ pc = "parsed"
    /\ run' = [run EXCEPT !.ref = NewInterpreter]
    /\ pc' = "interpreting"
    /\ UNCHANGED <<overflow_checks, source, input, program, ops0, ops, old, passes, last_len, jitvars>>

\* interpret(): one iteration of the loop, or its end
InterpStep ==
    /\ pc = "interpreting"
    /\ run.ref.steps < MaxInterpSteps
    /\ LET st == interpret_step(program, run.ref, input, overflow_checks)
       IN  /\ run' = [run EXCEPT !.ref = [st EXCEPT !.steps = run.ref.steps + 1]]
           /\ pc' = IF st.status = "running" THEN "interpreting" ELSE "interpreted"
    /\ UNCHANGED <<overflow_checks, source, input, program, ops0, ops, old, passes, last_len, jitvars>>

InterpNext == Parse \/ InterpStart \/ InterpStep

InterpSpec == InterpInit /\ [][InterpNext]_vars

-----------------------------------------------------------------------------
(* Properties *)

\* C1: for a balanced source whose reference interpretation halts, the
\* optimized chain executes to the same output, final tape and final data
\* pointer as the chain as built, and as the reference interpreter.
C1_OptimizePreservesSemantics ==
    (pc = "done" /\ run.ref.status = "halt")
        => /\ run.opt = run.unopt
           /\ run.opt = run.ref

\* the length of the chain
ChainLen(o) == Len(iter_indices(o))

\* the node after the node at index i, when there is one, and the index of
\* the node after that
HasNext(o, i) == o[i].next # NoLink
SubsequentIdx(o, i) == o[o[i].next].next
NextOf(o, i) == o[o[i].next]

\* the nodes of the chain at index i and after it have the kinds a and b
PairAt(o, i, a, b) == o[i].kind = a /\ HasNext(o, i) /\ NextOf(o, i).kind = b

\* the node that moves the data pointer by d cells (right when d > 0)
NetMove(far, d) == IF d > 0 THEN Right(far, d) ELSE Left(far, 0 - d)

\* C2: Right(x) followed by Left(y), and Left(x) followed by Right(y), is
\* replaced by the one node that moves the data pointer by the net
\* displacement of the two, linked past the second node.
C2_MixedMovesNetDisplacement ==
    \A i \in Reachable(ops) :
        /\ PairAt(ops, i, "Right", "Left") =>
              find_replacement(ops, i, overflow_checks)
                  = Ok(NetMove(NextOf(ops, i).next, ops[i].data - NextOf(ops, i).data))
        /\ PairAt(ops, i, "Left", "Right") =>
              find_replacement(ops, i, overflow_checks)
                  = Ok(NetMove(NextOf(ops, i).next, NextOf(ops, i).data - ops[i].data))

\* C3: Right(x) followed by Right(y) (Left(x) by Left(y)) is replaced by the
\* one node Right(x+y) (Left(x+y)) that moves the data pointer by exactly
\* x+y cells, linked past the second node, and the pass does not abort.
C3_SameMovesAddUp ==
    \A i \in Reachable(ops) : \A k \in {"Right", "Left"} :
        PairAt(ops, i, k, k) =>
            LET r == find_replacement(ops, i, overflow_checks)
            IN  /\ ~r.panic
                /\ r.val.kind = k
                /\ r.val.next = NextOf(ops, i).next
                /\ r.val.data = ops[i].data + NextOf(ops, i).data

\* C4: Add(x) followed by Add(y) (Sub(x) by Sub(y)) is replaced by
\* Add((x+y) mod 256) (Sub((x+y) mod 256)) linked past the second node, and
\* the pass never aborts on overflow.
C4_SameCellOpsAddUpModulo ==
    \A i \in Reachable(ops) : \A k \in {"Add", "Sub"} :
        PairAt(ops, i, k, k) =>
            find_replacement(ops, i, overflow_checks)
                = Ok(IrOp(k, NextOf(ops, i).next,
                          (ops[i].data + NextOf(ops, i).data) % Byte, NoLink))

\* what a node adds to the current cell, modulo 256
CellEffect(op) == IF op.kind = "Add" THEN op.data % Byte ELSE (0 - op.data) % Byte

\* C5: Add(x) followed by Sub(y), and Sub(x) followed by Add(y), is replaced
\* by exactly one Add or Sub node, Add iff the difference read as a signed
\* 8-bit value is positive, whose effect on the cell is (x-y) mod 256
\* (resp. (y-x) mod 256), linked past the second node, without aborting.
C5_MixedCellOpsDifference ==
    \A i \in Reachable(ops) :
        (PairAt(ops, i, "Add", "Sub") \/ PairAt(ops, i, "Sub", "Add")) =>
            LET r == find_replacement(ops, i, overflow_checks)
                d == CellEffect(ops[i]) + CellEffect(NextOf(ops, i))
            IN  /\ ~r.panic
                /\ r.val.kind \in {"Add", "Sub"}
                /\ (r.val.kind = "Add") <=> (as_i8(d % Byte) > 0)
                /\ r.val.next = NextOf(ops, i).next
                /\ CellEffect(r.val) = d % Byte

\* a program that is one run of cell operations on one cell: only + and -
\* and clear loops [-] / [+], at least one of them
ClearLoopIn(instructions, i) ==
    /\ instructions[i] = "JumpForward"
    /\ i + 2 \in DOMAIN instructions
    /\ instructions[i + 1] \in {"IncrementMemory", "DecrementMemory"}
    /\ instructions[i + 2] = "JumpBackward"
IsCellRun(instructions) ==
    /\ \E i \in DOMAIN instructions : instructions[i] = "JumpForward"
    /\ \A i \in DOMAIN instructions :
          \/ instructions[i] \in {"IncrementMemory", "DecrementMemory"}
          \/ ClearLoopIn(instructions, i)
          \/ instructions[i] = "JumpBackward" /\ i - 2 \in DOMAIN instructions
                /\ ClearLoopIn(instructions, i - 2)

\* the value such a run leaves in the cell: what follows its last clear loop
LastClose(instructions) ==
    CHOOSE e \in DOMAIN instructions :
        /\ instructions[e] = "JumpBackward"
        /\ \A j \in DOMAIN instructions : instructions[j] = "JumpBackward" => j <= e
RunValue(instructions) ==
    (Cardinality({j \in DOMAIN instructions :
                    j > LastClose(instructions) /\ instructions[j] = "IncrementMemory"})
     - Cardinality({j \in DOMAIN instructions :
                    j > LastClose(instructions) /\ instructions[j] = "DecrementMemory"})) % Byte

\* C6: a run of Add, Sub and SetIndirect nodes (clear loops included) is
\* reduced by optimize() to exactly one SetIndirect(c), c the value the run
\* leaves in the cell modulo 256, without aborting.
C6_CellRunBecomesOneSet ==
    (pc \notin {"start", "parsed"} /\ IsCellRun(program)) =>
        /\ pc # "abort_optimize"
        /\ pc \in {"optimized", "done"} =>
              iter(ops) = <<SetIndirect(NoLink, RunValue(program))>>

\* a pass of the optimizer: a call of optimize_program_once that returned
PassReturned == pc \in {"built", "optimizing"} /\ pc' \in {"optimizing", "optimized"}

\* the chain has JumpIfZero at index i, then Sub(1) or Add(1), then JumpIfNotZero
ClearLoopAt(o, i) ==
    /\ o[i].kind = "JumpIfZero"
    /\ HasNext(o, i)
    /\ NextOf(o, i).kind \in {"Sub", "Add"} /\ NextOf(o, i).data = 1
    /\ HasNext(o, o[i].next)
    /\ NextOf(o, o[i].next).kind = "JumpIfNotZero"

\* C7: for a JumpIfZero of the chain followed by Sub(1) or Add(1) and then
\* JumpIfNotZero, find_replacement gives SetIndirect(0) linked to what followed
\* the JumpIfNotZero, and a pass puts it in place of the JumpIfZero, so that
\* the loop leaves the chain; a JumpIfZero followed by anything else is not
\* rewritten.
C7_ClearLoopBecomesSet ==
    [][\A i \in Reachable(ops) :
          ops[i].kind = "JumpIfZero" =>
              IF ClearLoopAt(ops, i)
              THEN /\ find_replacement(ops, i, overflow_checks)
                          = Ok(SetIndirect(ops[SubsequentIdx(ops, i)].next, 0))
                   /\ PassReturned =>
                          /\ ops'[i] = SetIndirect(ops[SubsequentIdx(ops, i)].next, 0)
                          /\ i \in Reachable(ops')
                          /\ ops[i].next \notin Reachable(ops')
                          /\ SubsequentIdx(ops, i) \notin Reachable(ops')
              ELSE /\ find_replacement(ops, i, overflow_checks) = Ok(ops[i])
                   /\ PassReturned => ops'[i] = ops[i]]_vars

\* a clear loop of the chain as built is a SetIndirect(0) of the chain now
C7_Witness ==
    /\ pc = "optimizing" /\ passes = 1
    /\ \E i \in Reachable(ops) :
          /\ ClearLoopAt(ops0, i)
          /\ ops[i].kind = "SetIndirect" /\ ops[i].data = 0
          /\ ops[i].next = ops0[SubsequentIdx(ops0, i)].next

\* C8 as claimed: optimize() makes at most len()+1 passes; the chain never
\* gets longer from one pass to the next, every pass that is not the last
\* strictly shortens it, and the value a pass returns is len() after it.
C8_EveryPassButTheLastShortens ==
    [][PassReturned =>
        /\ passes' <= ChainLen(ops0) + 1
        /\ ChainLen(ops') <= ChainLen(ops)
        /\ pc' = "optimizing" => ChainLen(ops') < ChainLen(ops)
        /\ IrCode_len(ops') = Ok(last_len')]_vars

\* C8, amended: optimize() makes at most len()+1 passes; the chain never
\* gets longer from one pass to the next, every pass after the first that is
\* not the last strictly shortens it, and the value a pass returns is len()
\* after it.
C8_LaterPassesShorten ==
    [][PassReturned =>
        /\ passes' <= ChainLen(ops0) + 1
        /\ ChainLen(ops') <= ChainLen(ops)
        /\ (pc = "optimizing" /\ pc' = "optimizing") => ChainLen(ops') < ChainLen(ops)
        /\ IrCode_len(ops') = Ok(last_len')]_vars

\* a pass after the first was not the last, and the chain is shorter than built
C8_Witness ==
    pc = "optimizing" /\ passes >= 3 /\ last_len < ChainLen(ops0) /\ last_len = ChainLen(ops)

\* the pairs of kinds the two-node rules rewrite
FusablePair(a, b) ==
    \/ a.kind \in {"Add", "Sub", "SetIndirect"} /\ b.kind \in {"Add", "Sub", "SetIndirect"}
    \/ a.kind \in {"Right", "Left"} /\ b.kind \in {"Right", "Left"}

\* C9: when optimize() returns the chain is a fixed point: no node of it with
\* its successors matches a rewrite pattern, and one more pass leaves the
\* vector (nodes, payloads and links) as it is.
C9_OptimizedIsFixedPoint ==
    pc \in {"optimized", "done"} =>
        /\ \A i \in Reachable(ops) :
              /\ ~ClearLoopAt(ops, i)
              /\ HasNext(ops, i) => ~FusablePair(ops[i], NextOf(ops, i))
              /\ find_replacement(ops, i, overflow_checks) = Ok(ops[i])
        /\ optimize_program_once(ops, overflow_checks)
              = Ok([ops |-> ops, len |-> ChainLen(ops)])

\* optimize() returned after more than two passes, with a shorter chain
C9_Witness ==
    pc = "optimized" /\ passes >= 3 /\ ChainLen(ops) < ChainLen(ops0)

\* the brackets of a source text are balanced
BalancedPrefix(s, n) ==
    Cardinality({i \in 1 .. n : s[i] = "]"}) <= Cardinality({i \in 1 .. n : s[i] = "["})
BalancedSource(s) ==
    /\ \A n \in 0 .. Len(s) : BalancedPrefix(s, n)
    /\ Count(s, "[") = Count(s, "]")

\* C10: Program::from_string followed by IrCode::new aborts on exactly the
\* sources whose brackets are unbalanced; a balanced source is accepted.
C10_UnbalancedSourcesAbort ==
    pc \notin {"start", "parsed"} => (pc = "abort_new" <=> ~BalancedSource(source))

\* a source with as many [ as ] that closes before it opens was rejected
C10_Witness ==
    /\ pc = "abort_new"
    /\ Count(source, "[") = Count(source, "]")
    /\ Count(source, "[") > 0

-----------------------------------------------------------------------------
(* The chain as built *)

\* the characters of the alphabet in a source text, in order
Significant(s) == SelectSeq(s, LAMBDA c : c \in {">", "<", "+", "-", ".", ",", "[", "]"})

\* the primitive a character of the alphabet stands for, and the kind of the
\* node built for it
PrimitiveOf(c) ==
    CASE c = ">" -> "IncrementPtr" [] c = "<" -> "DecrementPtr"
      [] c = "+" -> "IncrementMemory" [] c = "-" -> "DecrementMemory"
      [] c = "." -> "WriteByte" [] c = "," -> "ReadByte"
      [] c = "[" -> "JumpForward" [] c = "]" -> "JumpBackward"
KindOf(c) ==
    CASE c = ">" -> "Right" [] c = "<" -> "Left"
      [] c = "+" -> "Add" [] c = "-" -> "Sub"
      [] c = "." -> "Write" [] c = "," -> "Read"
      [] c = "[" -> "JumpIfZero" [] c = "]" -> "JumpIfNotZero"

\* C11: the parsed program is the source filtered to the eight characters of
\* the alphabet, in order, and the chain IrCode::new builds has one node per
\* such character: of the kind of the character, of magnitude 1 when it is a
\* move or a cell operation, linked to the next index, the last to none.
C11_ChainMirrorsSource ==
    LET sig == Significant(source)
        n == Len(sig)
    IN  /\ pc # "start" =>
              /\ DOMAIN program = 0 .. n - 1
              /\ \A k \in 0 .. n - 1 : program[k] = PrimitiveOf(sig[k + 1])
        /\ pc \notin {"start", "parsed", "abort_new"} =>
              /\ DOMAIN ops0 = 0 .. n - 1
              /\ iter_indices(ops0) = [k \in 1 .. n |-> k - 1]
              /\ \A k \in 0 .. n - 1 :
                    /\ ops0[k].kind = KindOf(sig[k + 1])
                    /\ ops0[k].kind \in {"Right", "Left", "Add", "Sub"} => ops0[k].data = 1
                    /\ ops0[k].next = IF k = n - 1 THEN NoLink ELSE k + 1
        /\ pc = "built" => ops = ops0

\* a chain was built from a source that holds a character to drop
C11_Witness ==
    /\ pc = "built"
    /\ Len(Significant(source)) < Len(source)
    /\ Len(Significant(source)) >= 2
    /\ \E k \in DOMAIN ops0 : ops0[k].kind = "JumpIfZero"

\* the close bracket that matches the open bracket at index i of a program:
\* the nearest later index up to which opens and closes are as many
Between(instructions, i, j, what) ==
    Cardinality({k \in i .. j : instructions[k] = what})
MatchOf(instructions, i) ==
    CHOOSE j \in DOMAIN instructions :
        /\ j > i
        /\ Between(instructions, i, j, "JumpForward") = Between(instructions, i, j, "JumpBackward")
        /\ \A m \in i + 1 .. j - 1 :
              Between(instructions, i, m, "JumpForward") # Between(instructions, i, m, "JumpBackward")

\* C16: in the vector IrCode::new builds from a balanced program, the
\* JumpIfZero at index i and its matching JumpIfNotZero at index j > i have
\* the second links j+1 and i+1, and every JumpIfNotZero is such a match.
C16_JumpLinksOnePastEachOther ==
    pc \notin {"start", "parsed", "abort_new"} =>
        /\ \A i \in DOMAIN ops0 :
              ops0[i].kind = "JumpIfZero" =>
                  LET j == MatchOf(program, i)
                  IN  /\ ops0[j].kind = "JumpIfNotZero"
                      /\ ops0[i].target = j + 1
                      /\ ops0[j].target = i + 1
        /\ \A j \in DOMAIN ops0 :
              ops0[j].kind = "JumpIfNotZero" =>
                  \E i \in DOMAIN ops0 : ops0[i].kind = "JumpIfZero" /\ MatchOf(program, i) = j

\* every next link of the vector leads forward, inside the vector
LinksForward(o) ==
    \A i \in DOMAIN o : o[i].next = NoLink \/ (o[i].next > i /\ o[i].next < VLen(o))

\* C17: from IrCode::new on, and over every pass of the optimizer, the vector
\* keeps the length it was built with, every next link is none or an index
\* beyond its node and inside the vector, the walk from index 0 ends within
\* that many steps, and a pass leaves the nodes it does not visit as they were.
C17_VectorKeptLinksForward ==
    [][(pc \notin {"start", "parsed"} /\ pc' # "abort_new") =>
        /\ DOMAIN ops' = DOMAIN ops0' /\ DOMAIN ops = DOMAIN ops0
        /\ LinksForward(ops) /\ LinksForward(ops')
        /\ ChainLen(ops') <= VLen(ops0')
        /\ (VLen(ops') > 0 => IrCode_len(ops') = Ok(ChainLen(ops')))
        /\ PassReturned =>
              \A i \in DOMAIN ops : i \notin Reachable(ops') => ops'[i] = ops[i]]_vars

\* a pass has fused nodes, and left nodes outside the chain in the vector
C17_Witness ==
    /\ pc = "optimizing"
    /\ passes >= 2
    /\ \E i \in DOMAIN ops : i \notin Reachable(ops) /\ ops[i] # ops0[i]
    /\ \E i \in Reachable(ops) : ops[i].kind = "SetIndirect" /\ ops[i].next # NoLink

-----------------------------------------------------------------------------
(* The emitted program *)

\* the op of the given kind whose code starts at address a
OpStartsAt(kind, a) ==
    \E k \in DOMAIN cc.starts : cc.starts[k] = a /\ iter(ops)[k].kind = kind
\* the data pointer: the cell R14 points at
DataPtr(c) == c.regs[R14] - memory_ptr

\* the tape of the test can_read_input after `,>,>,` has read "abc"
TapeABC == Store(Store(Store(ZeroTape, 0, 97), 1, 98), 2, 99)

\* C12: in the emitted program a Write op loads the byte of the current cell
\* into the low byte of RCX and calls the write callback, held in R12, once;
\* a Read op calls the read callback, held in R13, once and stores the byte
\* it returned into the current cell; neither moves the data pointer or
\* changes another cell, no other op calls a callback, and `,>,>,` on the
\* input "abc" returns with the tape 97, 98, 99, 0, ...  (The current cell is
\* a cell of the tape, and the read callback has input left.)
C12_WriteReadCallbacks ==
    [][ /\ (pc = "running" /\ InTape(DataPtr(cpu)) /\ cpu'.status # "panic") =>
            LET p == DataPtr(cpu)
                same == cpu'.mem = cpu.mem /\ DataPtr(cpu') = p
            IN  /\ OpStartsAt("Write", cpu.rip) =>
                      /\ same /\ cpu'.calls = cpu.calls
                      /\ cpu'.regs[RCX] % Byte = Cell(cpu.mem, p)
                      /\ cpu'.rip = cpu.rip + 4
                /\ OpStartsAt("Write", cpu.rip - 4) =>
                      /\ same /\ cpu'.calls = cpu.calls + 1
                      /\ cpu.regs[R12] = putchar_ptr
                      /\ cpu'.event.fn = "putchar"
                      /\ cpu'.event.arg = Cell(cpu.mem, p)
                      /\ cpu'.out = Append(cpu.out, Cell(cpu.mem, p))
                      /\ cpu'.rip = cpu.rip + 3
                /\ OpStartsAt("Read", cpu.rip) =>
                      /\ same /\ cpu'.calls = cpu.calls + 1
                      /\ cpu.regs[R13] = getchar_ptr
                      /\ cpu'.event.fn = "getchar"
                      /\ cpu'.event.val = input[cpu.inpos]
                      /\ cpu'.rip = cpu.rip + 3
                /\ OpStartsAt("Read", cpu.rip - 3) =>
                      /\ cpu'.mem = Store(cpu.mem, p, cpu.event.val)
                      /\ DataPtr(cpu') = p /\ cpu'.calls = cpu.calls
                      /\ cpu'.rip = cpu.rip + 3
                /\ cpu'.calls # cpu.calls =>
                      OpStartsAt("Write", cpu.rip - 4) \/ OpStartsAt("Read", cpu.rip)
        /\ (pc' = "finished" /\ source = <<",", ">", ",", ">", ",">> /\ input = <<97, 98, 99>>) =>
              cpu'.status = "returned" /\ cpu'.mem = TapeABC ]_vars

\* `,.,.` has read and written "ab"
C12_Witness ==
    /\ pc = "finished" /\ cpu.status = "returned"
    /\ source = <<",", ".", ",", ".">>
    /\ cpu.calls = 4
    /\ cpu.out = <<97, 98>>

\* the processor executes n instructions in a row (none of them a call)
RECURSIVE run_instructions(_, _, _)
run_instructions(c, data, n) ==
    IF n = 0 \/ c.status # "running" THEN c
    ELSE run_instructions(exec_instruction(c, data, <<>>, 0), data, n - 1)

\* the state after the code of the MulCopy op that starts at rip has run
AfterMulCopy(op) ==
    run_instructions(cpu, asm.data, IF op.factor = 1 THEN 3 ELSE 4)

\* C13: the code emitted for MulCopy(offset, factor), run with the data
\* pointer p, adds factor * cell[p] mod 256 to cell[p + offset], then leaves
\* cell[p] = 0, and changes neither the data pointer nor another cell
C13_MulCopyAddsAndClears ==
    \A k \in DOMAIN cc.starts :
        LET op == iter(ops)[k]
            p == DataPtr(cpu)
            q == p + op.data
        IN  (/\ pc = "running" /\ cpu.rip = cc.starts[k] /\ op.kind = "MulCopy"
             /\ InTape(p) /\ InTape(q)) =>
                LET c2 == AfterMulCopy(op)
                    added == Store(cpu.mem, q, (Cell(cpu.mem, q) + op.factor * Cell(cpu.mem, p)) % Byte)
                IN  /\ c2.status = "running"
                    /\ c2.rip = cpu.rip + Len(op_bytes(op))
                    /\ DataPtr(c2) = p
                    /\ c2.mem = Store(added, p, 0)

\* what the emitted code does: the same, but cell[p] keeps its value
C13_MulCopyAddsOnly ==
    \A k \in DOMAIN cc.starts :
        LET op == iter(ops)[k]
            p == DataPtr(cpu)
            q == p + op.data
        IN  (/\ pc = "running" /\ cpu.rip = cc.starts[k] /\ op.kind = "MulCopy"
             /\ InTape(p) /\ InTape(q)) =>
                LET c2 == AfterMulCopy(op)
                IN  /\ c2.status = "running"
                    /\ c2.rip = cpu.rip + Len(op_bytes(op))
                    /\ DataPtr(c2) = p
                    /\ c2.mem = Store(cpu.mem, q, (Cell(cpu.mem, q) + op.factor * Cell(cpu.mem, p)) % Byte)

\* the start addresses of the code of the JumpIfZero ops
OpenStarts == {cc.starts[k] : k \in {j \in DOMAIN cc.starts : iter(ops)[j].kind = "JumpIfZero"}}

\* C14: compile() is deterministic.  In whatever order the second pass
\* visits the '[' labels, each patch changes bytes only within the cmp; je of
\* its own open bracket and leaves the recorded length alone, and the buffer
\* and the length compile() returns with are those of the labels visited by
\* ascending address; the length is the cursor after the first pass.
C14_CompileDeterministic ==
    [][ /\ (pc = "patching" /\ pc' # "abort_compile") =>
              /\ \E key \in cc.jumps_to_fix \ cc'.jumps_to_fix :
                    /\ asm.labels[key] \in OpenStarts
                    /\ \A i \in DOMAIN asm.data :
                          asm'.data[i] # asm.data[i] =>
                              i >= asm.labels[key] /\ i < asm.labels[key] + 10
              /\ DOMAIN asm'.data = DOMAIN asm.data
              /\ cc'.length = cc.length
        /\ (pc # "compiled" /\ pc' = "compiled") =>
              /\ asm'.data = compile(ops).data
              /\ cc'.length = first_pass(ops).c.length
              /\ asm'.data[cc'.length - 1] = ret[1]
              /\ \A i \in DOMAIN asm'.data : i >= cc'.length => asm'.data[i] = INT3 ]_vars

\* four loops have been patched; the cursor is left behind the last patch
C14_Witness ==
    /\ pc = "compiled"
    /\ source = <<"[", "[", "]", "[", "]", "]", "[", "]">>
    /\ Cardinality(jumps_of(asm.labels)) = 4
    /\ asm.addr # cc.length

\* the ops of the given kind among chain[i .. j]
CountKind(chain, i, j, kind) == Cardinality({x \in i .. j : chain[x].kind = kind})

\* every close bracket has its open bracket before it, and none is left open
ProperlyNested(chain) ==
    /\ \A j \in DOMAIN chain :
          CountKind(chain, 1, j, "JumpIfNotZero") <= CountKind(chain, 1, j, "JumpIfZero")
    /\ CountKind(chain, 1, Len(chain), "JumpIfNotZero") = CountKind(chain, 1, Len(chain), "JumpIfZero")

\* the JumpIfNotZero that closes the loop the JumpIfZero at k opens
CloseOf(chain, k) ==
    CHOOSE m \in k + 1 .. Len(chain) :
        /\ chain[m].kind = "JumpIfNotZero"
        /\ CountKind(chain, k, m, "JumpIfZero") = CountKind(chain, k, m, "JumpIfNotZero")
        /\ \A j \in k + 1 .. m - 1 :
              ~(/\ chain[j].kind = "JumpIfNotZero"
                /\ CountKind(chain, k, j, "JumpIfZero") = CountKind(chain, k, j, "JumpIfNotZero"))

\* the bytes at address a of the buffer
BytesAt(data, a, n) == [i \in 1 .. n |-> ByteAt(data, a + i - 1)]

\* C15: after compile() of a chain with properly nested jumps, for every
\* loop, the je of its JumpIfZero has rel32 = target - (address of the je + 6)
\* with target the first byte after the loop's jne, and no longer the
\* placeholder; the jne of its JumpIfNotZero leads to the first byte of the
\* loop's opening cmp; the open and the close of the loop are labelled with
\* the same (depth, id), and no two loops share a label.
C15_JumpsResolved ==
    LET chain == iter(ops)
        opens == {k \in DOMAIN chain : chain[k].kind = "JumpIfZero"}
    IN  (pc = "compiled" /\ ProperlyNested(chain)) =>
            /\ \A k \in opens :
                  LET m == CloseOf(chain, k)
                      open == cc.starts[k]
                      je_addr == open + 4
                      jne_addr == cc.starts[m] + 4
                      target == jne_addr + 6
                  IN  /\ BytesAt(asm.data, open, 4) = cmp_indirect(R14, 0)
                      /\ BytesAt(asm.data, je_addr, 2) = <<15, 132>>
                      /\ Rel32(asm.data, je_addr + 2) = target - (je_addr + 6)
                      /\ Rel32(asm.data, je_addr + 2) # PLACEHOLDER
                      /\ BytesAt(asm.data, cc.starts[m], 4) = cmp_indirect(R14, 0)
                      /\ BytesAt(asm.data, jne_addr, 2) = <<15, 133>>
                      /\ jne_addr + 6 + Rel32(asm.data, jne_addr + 2) = open
                      /\ \E key \in DOMAIN asm.labels :
                            /\ key[1] = "["
                            /\ asm.labels[key] = open
                            /\ <<"]", key[2], key[3]>> \in DOMAIN asm.labels
                            /\ asm.labels[<<"]", key[2], key[3]>>] = target
            /\ Cardinality(jumps_of(asm.labels)) = Cardinality(opens)
            /\ Cardinality(DOMAIN asm.labels) = 2 * Cardinality(opens)

\* nested loops and loops one after another at one depth have been compiled
C15_Witness ==
    /\ pc = "compiled"
    /\ source = <<"+", "[", "-", "[", "]", "]", "+", "[", ">", "]", "[", "]">>
    /\ passes = 0
    /\ {<<"[", 1, 1>>, <<"[", 2, 1>>, <<"[", 1, 2>>, <<"[", 1, 3>>} = jumps_of(asm.labels)

\* C18: the bytes compile() writes for a chain of N reachable ops (prologue,
\* ops, epilogue) number at most 256 + 16 * N, and the cursor never leaves
\* the buffer in either pass: no put() runs past its end
C18_CodeFitsBuffer ==
    /\ ~asm.panic
    /\ asm.addr <= VLen(asm.data)
    /\ pc \in {"patching", "compiled", "running", "finished"} =>
          cc.length <= 256 + 16 * Len(iter(ops))

\* without MulCopy the code fits: no other op takes more than 10 bytes
C18_FitsWithoutMulCopy ==
    (\A i \in DOMAIN ops : ops[i].kind # "MulCopy") => C18_CodeFitsBuffer

\* the bytes the prologue's pushes take on the stack
SAVED == 32

\* the instruction at rip is one of the ops: behind the prologue and before
\* the epilogue
InBody(c) == c.rip >= Len(prologue) /\ c.rip < cc.length - Len(epilogue)

\* C19: entered with RSP = 8 (mod 16), the emitted program has, at every
\* call instruction it executes, RSP a multiple of 16 and the 32 bytes above
\* RSP within its own frame, below the registers it saved; and no
\* instruction of an op between prologue and epilogue changes RSP.
C19_StackAlignedAtCalls ==
    [][ pc = "running" =>
          /\ decode(asm.data, cpu.rip).name = "call" =>
                /\ STACK_ENTRY % 16 = 8
                /\ cpu.regs[RSP] % 16 = 0
                /\ cpu.regs[RSP] + SHADOW <= STACK_ENTRY - SAVED
          /\ InBody(cpu) => cpu'.regs[RSP] = cpu.regs[RSP] ]_vars

\* a Write inside two loops is about to call
C19_Witness ==
    /\ pc = "running"
    /\ source = <<"+", "[", "[", ".", "-", "]", "]">>
    /\ decode(asm.data, cpu.rip).name = "call"
    /\ cpu.regs[RSP] = STACK_ENTRY - SAVED - FRAME

\* C20: the epilogue mirrors the prologue: the prologue pushes RBX, R12,
\* R13, R14 and subtracts 168 from RSP, the epilogue adds 168 and pops R14,
\* R13, R12, RBX; so at the ret of the generated code RSP, RBX, R12, R13 and
\* R14 hold the values they had at entry, and so they do when it has
\* returned (RSP past the return address).
C20_EpilogueMirrorsPrologue ==
    LET saved == {RBX, R12, R13, R14}
        at_ret == pc = "running" /\ decode(asm.data, cpu.rip).name = "ret"
        returned == pc = "finished" /\ cpu.status = "returned"
    IN  /\ (at_ret \/ returned) =>
              /\ BytesAt(asm.data, 0, 14) =
                    <<83, 65, 84, 65, 85, 65, 86>> \o <<72, 129, 236>> \o imm32(168)
              /\ BytesAt(asm.data, cc.length - 15, 15) =
                    <<72, 129, 196>> \o imm32(168) \o <<65, 94, 65, 93, 65, 92, 91>> \o <<195>>
              /\ \A r \in saved : cpu.regs[r] = EntryRegs[r]
        /\ at_ret => cpu.rip = cc.length - 1 /\ cpu.regs[RSP] = STACK_ENTRY
        /\ returned => cpu.regs[RSP] = STACK_ENTRY + 8

\* the chain of copy_multiplied, whose MulCopy uses RBX, has written 'M' and
\* returned
C20_Witness ==
    /\ pc = "finished"
    /\ cpu.status = "returned"
    /\ \E i \in DOMAIN ops : ops[i].kind = "MulCopy" /\ ops[i].factor = 11
    /\ cpu.out = <<77>>
    /\ cpu.regs[RBX] = EntryRegs[RBX]

-----------------------------------------------------------------------------
(* The memory operands of the assembler *)

\* the bytes the called method puts before its ModR/M byte: REX prefix (if
\* any) and opcode
BeforeModRM(c) ==
    CASE c.method \in {"add_indirect", "sub_indirect", "cmp_indirect"} ->
            IF is_extended(c.memory) THEN 2 ELSE 1
      [] c.method = "mov_to_reg" -> 3
      [] c.method = "mov_to_memory" ->
            IF is_extended(c.memory) \/ is_extended(c.reg) THEN 2 ELSE 1
\* the immediate byte that follows the operand
AfterOperand(c) ==
    IF c.method \in {"add_indirect", "sub_indirect", "cmp_indirect"} THEN 1 ELSE 0

\* the memory operand the called method has put, as the claim describes it
OperandAsClaimed(c) ==
    LET at == BeforeModRM(c)
        modrm == asm.data[at]
        mod == modrm \div 64
        rm == modrm % 8
        low3 == c.memory % 8
    IN  CASE low3 = 4 ->
                /\ mod = 0 /\ rm = 4
                /\ asm.data[at + 1] = 36
                /\ asm.addr = at + 2 + AfterOperand(c)
          [] low3 = 5 ->
                /\ mod = 1 /\ rm = 5
                /\ asm.data[at + 1] = 0
                /\ asm.addr = at + 2 + AfterOperand(c)
          [] OTHER ->
                /\ mod = 0 /\ rm = low3
                /\ asm.addr = at + 1 + AfterOperand(c)

\* C21: for op_80 (add_indirect, sub_indirect, cmp_indirect), mov_to_reg and
\* mov_to_memory and each of the 16 base registers: a base whose low three
\* bits are 4 (RSP, R12) gets ModR/M mod=00 rm=100 and the SIB byte 0x24; one
\* whose low three bits are 5 (RBP, R13) gets mod=01 rm=101 and disp8 = 0;
\* any other gets mod=00 rm=low3 and no further byte.
C21_MemoryOperandEncoding ==
    pc = "tested" => OperandAsClaimed(asm_call)

\* for the bases other than RSP and RBP the operand is as described
C21_ExceptRspRbp ==
    (pc = "tested" /\ asm_call.memory \notin {RSP, 5}) => OperandAsClaimed(asm_call)

-----------------------------------------------------------------------------
(* The nesting of the jumps *)

\* the open brackets less the close brackets among the first n ops
DepthAfter(chain, n) ==
    CountKind(chain, 1, n, "JumpIfZero") - CountKind(chain, 1, n, "JumpIfNotZero")

\* C22: on a chain built from a balanced program, the jumps of the reachable
\* chain are properly nested as built and after every optimization pass; so
\* while compile() walks the chain its parentheses_depth is the number of
\* loops open so far, never below zero, and zero when the walk has ended.
C22_JumpsStayNested ==
    LET chain == iter(ops)
    IN  /\ pc \in {"built", "optimizing", "optimized", "unoptimized",
                   "emitting", "patching", "compiled"} =>
              ProperlyNested(chain)
        /\ pc \in {"emitting", "patching", "compiled"} =>
              /\ cc.depth = DepthAfter(chain, cc.k)
              /\ cc.depth >= 0
        /\ pc \in {"patching", "compiled"} =>
              /\ cc.k = Len(chain)
              /\ cc.depth = 0

\* a clear loop inside a loop has been replaced, in two passes or more, and
\* the chain compiled with the outer loop left
C22_Witness ==
    /\ pc = "compiled"
    /\ source = <<"+", "[", "[", "-", "]", "]", ".">>
    /\ passes >= 2
    /\ CountKind(iter(ops), 1, Len(iter(ops)), "JumpIfZero") = 1
    /\ CountKind(iter(ops), 1, Len(iter(ops)), "SetIndirect") = 1
    /\ cc.depth = 0

-----------------------------------------------------------------------------
(* The backward jump of the interpreter *)

\* the interpreter is at a ']' on a cell that is not zero: op_jump_backward
\* is about to set program_counter = begin - 1
TakesBackwardJump ==
    /\ pc = "interpreting"
    /\ run.ref.pc < VLen(program)
    /\ program[run.ref.pc] = "JumpBackward"
    /\ InTape(run.ref.ptr)
    /\ Cell(run.ref.mem, run.ref.ptr) # 0

\* C23: started with program counter 0, data pointer 0 and an all-zero tape,
\* the interpreter of a balanced program never takes the backward jump to a
\* '[' at program index 0, on any input: `begin - 1` is never computed with
\* begin = 0, and the program counter stays within 0 .. len.
C23_NoBackwardJumpToIndexZero ==
    BalancedSource(source) =>
        /\ TakesBackwardJump =>
              LET begin == find_matching_jump_start(program, run.ref.pc)
              IN  ~begin.panic /\ begin.val >= 1
        /\ pc \in {"interpreting", "interpreted"} =>
              run.ref.pc >= 0 /\ run.ref.pc <= VLen(program)

\* a program that opens with a loop, skipped, has taken a backward jump in
\* a later loop
C23_Witness ==
    /\ source = <<"[", "+", "]", "+", "+", "[", "-", "]">>
    /\ TakesBackwardJump
    /\ run.ref.steps > 0

-----------------------------------------------------------------------------
(* Programs without instructions *)

\* the chain in hand was made by IrCode::new from the parsed program
BuiltByNew ==
    /\ pc \notin {"start", "parsed", "abort_new"}
    /\ ~IrCode_new(program).panic
    /\ ops0 = IrCode_new(program).val

\* C24: len(), optimize() and compile() are total on every IrCode that
\* IrCode::new produces: neither optimize() nor compile() aborts, and for a
\* source without significant characters (zero ops) len() returns 0 and
\* optimize() leaves the vector as it is.
C24_TotalOnEveryBuiltChain ==
    BuiltByNew =>
        /\ pc \notin {"abort_optimize", "abort_compile"}
        /\ VLen(ops0) = 0 =>
              /\ IrCode_len(ops0) = Ok(0)
              /\ ~optimize_program_once(ops0, overflow_checks).panic
              /\ ops = ops0

\* on the chains of the model that have at least one op the three are total
C24_TotalWhenNotEmpty ==
    (BuiltByNew /\ VLen(ops0) > 0) =>
        /\ pc \notin {"abort_optimize", "abort_compile"}
        /\ ~IrCode_len(ops).panic

=============================================================================
